---------------------------- MODULE Spec2Model ----------------------------
(***************************************************************************)
(* Model of the EFG Kirchheim WiFi MAC-filter automation:                  *)
(*   src/efg_automation.py       the reconciliation run and its wrapper    *)
(*   src/efg_wifi_automation.py  controller client, MAC file, orchestration*)
(*   src/efg_o365.py             Planner task source and Teams notifier    *)
(*                                                                         *)
(* Python strings are modelled as sequences of one-character strings so    *)
(* that lower(), strip(), split() and startswith() are computed, not       *)
(* assumed.  Python dicts are modelled as insertion-ordered sequences of   *)
(* [k, v] records.                                                         *)
(***************************************************************************)
EXTENDS Integers, Sequences, FiniteSets, TLC

(***************************************************************************)
(* Bounds of the model.                                                    *)
(***************************************************************************)
\* longest task board a run is started on
MaxTasks == 2
\* number of Filter Client calls explored by FilterSpec
MaxCalls == 3
\* number of upstream edits of a task while it is being completed
MaxEdits == 1
\* longest task board TaskSpec lists
MaxBoard == 3
\* number of set_wifi_mac_filter_list calls explored by SetSpec
MaxSets == 2
\* number of EFGMACFile calls explored by BackupSpec
MaxStores == 3
\* most lines after the header of a hand-edited MAC file
MaxLines == 3
\* most runs of the program, one after the other
MaxRuns == 2
\* number of runs that go on at the same time
MaxConc == 2
MaxLists == 2

(***************************************************************************)
(* str methods                                                             *)
(***************************************************************************)
\* the letters of each case as a function to the other case
ToLower ==
    ("A" :> "a") @@ ("B" :> "b") @@ ("C" :> "c") @@ ("D" :> "d") @@
    ("E" :> "e") @@ ("F" :> "f") @@ ("G" :> "g") @@ ("H" :> "h") @@
    ("I" :> "i") @@ ("J" :> "j") @@ ("K" :> "k") @@ ("L" :> "l") @@
    ("M" :> "m") @@ ("N" :> "n") @@ ("O" :> "o") @@ ("P" :> "p") @@
    ("Q" :> "q") @@ ("R" :> "r") @@ ("S" :> "s") @@ ("T" :> "t") @@
    ("U" :> "u") @@ ("V" :> "v") @@ ("W" :> "w") @@ ("X" :> "x") @@
    ("Y" :> "y") @@ ("Z" :> "z")
ToUpper ==
    ("a" :> "A") @@ ("b" :> "B") @@ ("c" :> "C") @@ ("d" :> "D") @@
    ("e" :> "E") @@ ("f" :> "F") @@ ("g" :> "G") @@ ("h" :> "H") @@
    ("i" :> "I") @@ ("j" :> "J") @@ ("k" :> "K") @@ ("l" :> "L") @@
    ("m" :> "M") @@ ("n" :> "N") @@ ("o" :> "O") @@ ("p" :> "P") @@
    ("q" :> "Q") @@ ("r" :> "R") @@ ("s" :> "S") @@ ("t" :> "T") @@
    ("u" :> "U") @@ ("v" :> "V") @@ ("w" :> "W") @@ ("x" :> "X") @@
    ("y" :> "Y") @@ ("z" :> "Z")

LowerChar(c) == IF c \in DOMAIN ToLower THEN ToLower[c] ELSE c

UpperChar(c) == IF c \in DOMAIN ToUpper THEN ToUpper[c] ELSE c

\* str.lower()
Lower(s) == [i \in DOMAIN s |-> LowerChar(s[i])]

\* str.upper()
Upper(s) == [i \in DOMAIN s |-> UpperChar(s[i])]

Whitespace == {" ", "\t", "\n", "\r"}

RECURSIVE LStrip(_)
LStrip(s) ==
    IF s # <<>> /\ Head(s) \in Whitespace THEN LStrip(Tail(s)) ELSE s

RECURSIVE RStrip(_)
RStrip(s) ==
    IF s # <<>> /\ s[Len(s)] \in Whitespace
    THEN RStrip(SubSeq(s, 1, Len(s) - 1))
    ELSE s

\* str.strip()
Strip(s) == RStrip(LStrip(s))

\* str.startswith(p)
StartsWith(s, p) == Len(s) >= Len(p) /\ SubSeq(s, 1, Len(p)) = p

\* str.split(sep): cut at the non-overlapping occurrences of sep, left to
\* right; `start` is where the current piece begins, `i` the scan position
RECURSIVE SplitFrom(_, _, _, _)
SplitFrom(s, sep, start, i) ==
    IF i + Len(sep) - 1 > Len(s)
    THEN << SubSeq(s, start, Len(s)) >>
    ELSE IF SubSeq(s, i, i + Len(sep) - 1) = sep
         THEN << SubSeq(s, start, i - 1) >>
                 \o SplitFrom(s, sep, i + Len(sep), i + Len(sep))
         ELSE SplitFrom(s, sep, start, i + 1)

Split(s, sep) == SplitFrom(s, sep, 1, 1)

\* x in list
InList(x, list) == \E i \in DOMAIN list : list[i] = x

\* list.remove(x): drops the first occurrence (the caller checks x in list)
ListRemove(list, x) ==
    LET i == CHOOSE j \in DOMAIN list :
                 list[j] = x /\ \A k \in 1..(j - 1) : list[k] # x
    IN  SubSeq(list, 1, i - 1) \o SubSeq(list, i + 1, Len(list))

\* number of occurrences of x in list
Count(x, list) == Cardinality({i \in DOMAIN list : list[i] = x})

(***************************************************************************)
(* dict, as an insertion-ordered sequence of [k, v]                        *)
(***************************************************************************)
DictKeys(d) == {d[i].k : i \in DOMAIN d}

DictGet(d, key) == d[CHOOSE i \in DOMAIN d : d[i].k = key].v

\* d[key] = val: an existing key keeps its position
DictPut(d, key, val) ==
    IF key \in DictKeys(d)
    THEN [i \in DOMAIN d |->
             IF d[i].k = key THEN [k |-> key, v |-> val] ELSE d[i]]
    ELSE Append(d, [k |-> key, v |-> val])

\* del d[key]
DictDel(d, key) ==
    LET keep(e) == e.k # key IN SelectSeq(d, keep)

(***************************************************************************)
(* String literals used by the code and by the explored inputs             *)
(***************************************************************************)
ADDMAC == <<"a","d","d","m","a","c">>
DELMAC == <<"d","e","l","m","a","c">>
TitleSep == <<" ","-"," ">>
HashSep == <<"#">>
SemiSep == <<";">>

Guest == <<"G","u","e","s","t">>
Staff == <<"S","t","a","f","f">>
Nope  == <<"N","o","p","e">>

\* "aa:bb:cc:dd:ee:01" and "aa:bb:cc:dd:ee:02", and other spellings
Mac1     == <<"a","a",":","b","b",":","c","c",":","d","d",":","e","e",":","0","1">>
Mac2     == <<"a","a",":","b","b",":","c","c",":","d","d",":","e","e",":","0","2">>
Mac1Up   == Upper(Mac1)
Mac2Up   == Upper(Mac2)
\* "aa-bb-cc-dd-ee-01"
Mac1Dash == <<"a","a","-","b","b","-","c","c","-","d","d","-","e","e","-","0","1">>
\* "aabbccddee02"
Mac2Bare == <<"a","a","b","b","c","c","d","d","e","e","0","2">>
\* "aa:bb:cc:dd:ee:0g"
MacBadHex == <<"a","a",":","b","b",":","c","c",":","d","d",":","e","e",":","0","g">>

(***************************************************************************)
(* pyunifi_WiFi_Controller                                                 *)
(***************************************************************************)
HexDigits == {"0","1","2","3","4","5","6","7","8","9","a","b","c","d","e","f"}

\* re.match("[0-9a-f]{2}([:]?)[0-9a-f]{2}(\\1[0-9a-f]{2}){4}$", s)
\* group 1 is ":" when the third character is a colon and empty otherwise
\* (the empty alternative cannot succeed on a colon, which is no hex digit);
\* $ also matches before one trailing newline.
MacRegexMatch(s) ==
    LET seplen == IF Len(s) >= 3 /\ s[3] = ":" THEN 1 ELSE 0
        n      == 12 + 5 * seplen
        at(g)  == 1 + g * (2 + seplen)
    IN  /\ Len(s) = n \/ (Len(s) = n + 1 /\ s[n + 1] = "\n")
        /\ \A g \in 0..5 :
              /\ s[at(g)] \in HexDigits
              /\ s[at(g) + 1] \in HexDigits
              /\ (g >= 1 /\ seplen = 1) => s[at(g) - 1] = ":"

\* the index of the first invalid MAC of the list, 0 when all are valid
FirstInvalid(mac_address_list) ==
    IF \A i \in DOMAIN mac_address_list : MacRegexMatch(Lower(mac_address_list[i]))
    THEN 0
    ELSE CHOOSE i \in DOMAIN mac_address_list :
            /\ ~MacRegexMatch(Lower(mac_address_list[i]))
            /\ \A j \in 1..(i - 1) : MacRegexMatch(Lower(mac_address_list[j]))

\* _validate_mac_filter_list: TRUE when no ValueError is raised
validate_mac_filter_list(mac_address_list) == FirstInvalid(mac_address_list) = 0

\* The outcome of one transport call to the controller's REST API is the
\* environment's choice: net.read / net.write say whether the read calls
\* (get_wlan_conf, _api_read) and the write call (_api_update) go through.
NetOk == [read |-> TRUE, write |-> TRUE]
NetOutcomes == { NetOk, [read |-> FALSE, write |-> TRUE],
                 [read |-> TRUE, write |-> FALSE] }

\* the result of a Filter Client call: the controller's lists after it, the
\* exception it raised ("none" when it returned), the branch it took and
\* the number of _update_wifi_settings calls it issued
Returned(c, branch, writes) ==
    [ctl |-> c, err |-> "none", branch |-> branch, writes |-> writes]
Raised(c, err, branch) ==
    [ctl |-> c, err |-> err, branch |-> branch, writes |-> 0]

\* get_wifi_id_by_name: TRUE when a WLAN of that exact name exists
\* (ValueError otherwise)
get_wifi_id_by_name(c, name) == name \in DOMAIN c

\* get_current_mac_filter_list without the lower-casing of the entries
get_current_mac_filter_list_raw(c, wifi_name) == c[wifi_name]

\* get_current_mac_filter_list: the controller's list, every entry lower-cased
get_current_mac_filter_list(c, wifi_name) ==
    [n \in DOMAIN c[wifi_name] |-> Lower(c[wifi_name][n])]

\* set_wifi_mac_filter_list without the call of _validate_mac_filter_list
set_wifi_mac_filter_list_novalidate(c, wifi_name, mac_address_list, net, branch) ==
    IF ~net.read THEN Raised(c, "UpstreamUnavailable", branch)
    ELSE IF ~get_wifi_id_by_name(c, wifi_name)
         THEN Raised(c, "NetworkNotFound", branch)
    ELSE IF ~net.write THEN Raised(c, "UpstreamUnavailable", branch)
    ELSE Returned([c EXCEPT ![wifi_name] = mac_address_list], branch, 1)

\* set_wifi_mac_filter_list: resolve the name, validate the whole list,
\* then replace the list by one _update_wifi_settings call
set_wifi_mac_filter_list(c, wifi_name, mac_address_list, net, branch) ==
    IF ~net.read THEN Raised(c, "UpstreamUnavailable", branch)
    ELSE IF ~get_wifi_id_by_name(c, wifi_name)
         THEN Raised(c, "NetworkNotFound", branch)
    ELSE IF ~validate_mac_filter_list(mac_address_list)
         THEN Raised(c, "InvalidMacFormat", branch)
    ELSE IF ~net.write THEN Raised(c, "UpstreamUnavailable", branch)
    ELSE Returned([c EXCEPT ![wifi_name] = mac_address_list], branch, 1)

\* add_mac_to_mac_filter that tests the MAC as given, not lower-cased
ctl_add_mac_to_mac_filter_cased(c, wifi_name, mac_address, net) ==
    IF ~net.read THEN Raised(c, "UpstreamUnavailable", "none")
    ELSE IF ~get_wifi_id_by_name(c, wifi_name)
         THEN Raised(c, "NetworkNotFound", "none")
    ELSE LET mac_address_list == get_current_mac_filter_list(c, wifi_name)
         IN  IF ~InList(mac_address, mac_address_list)
             THEN set_wifi_mac_filter_list(c, wifi_name,
                      Append(mac_address_list, Lower(mac_address)), net, "Added")
             ELSE Returned(c, "AlreadyPresent", 0)

\* add_mac_to_mac_filter that writes the list back in both branches
ctl_add_mac_to_mac_filter_rewrite(c, wifi_name, mac_address, net) ==
    IF ~net.read THEN Raised(c, "UpstreamUnavailable", "none")
    ELSE IF ~get_wifi_id_by_name(c, wifi_name)
         THEN Raised(c, "NetworkNotFound", "none")
    ELSE LET mac_address_list == get_current_mac_filter_list(c, wifi_name)
         IN  IF ~InList(Lower(mac_address), mac_address_list)
             THEN set_wifi_mac_filter_list(c, wifi_name,
                      Append(mac_address_list, Lower(mac_address)), net, "Added")
             ELSE set_wifi_mac_filter_list(c, wifi_name,
                      mac_address_list, net, "AlreadyPresent")

\* pyunifi_WiFi_Controller.add_mac_to_mac_filter
ctl_add_mac_to_mac_filter(c, wifi_name, mac_address, net) ==
    IF ~net.read THEN Raised(c, "UpstreamUnavailable", "none")
    ELSE IF ~get_wifi_id_by_name(c, wifi_name)
         THEN Raised(c, "NetworkNotFound", "none")
    ELSE LET mac_address_list == get_current_mac_filter_list(c, wifi_name)
         IN  IF ~InList(Lower(mac_address), mac_address_list)
             THEN set_wifi_mac_filter_list(c, wifi_name,
                      Append(mac_address_list, Lower(mac_address)), net, "Added")
             ELSE Returned(c, "AlreadyPresent", 0)

\* remove_mac_from_mac_filter that writes the list back in both branches
ctl_remove_mac_from_mac_filter_rewrite(c, wifi_name, mac_address, net) ==
    IF ~net.read THEN Raised(c, "UpstreamUnavailable", "none")
    ELSE IF ~get_wifi_id_by_name(c, wifi_name)
         THEN Raised(c, "NetworkNotFound", "none")
    ELSE LET mac_address_list == get_current_mac_filter_list(c, wifi_name)
         IN  IF InList(Lower(mac_address), mac_address_list)
             THEN set_wifi_mac_filter_list(c, wifi_name,
                      ListRemove(mac_address_list, Lower(mac_address)),
                      net, "Removed")
             ELSE set_wifi_mac_filter_list(c, wifi_name,
                      mac_address_list, net, "NotPresent")

\* remove_mac_from_mac_filter that takes an unknown WLAN as an empty list
ctl_remove_mac_from_mac_filter_lenient(c, wifi_name, mac_address, net) ==
    IF ~net.read THEN Raised(c, "UpstreamUnavailable", "none")
    ELSE IF ~get_wifi_id_by_name(c, wifi_name)
         THEN Returned(c, "NotPresent", 0)
    ELSE LET mac_address_list == get_current_mac_filter_list(c, wifi_name)
         IN  IF InList(Lower(mac_address), mac_address_list)
             THEN set_wifi_mac_filter_list(c, wifi_name,
                      ListRemove(mac_address_list, Lower(mac_address)),
                      net, "Removed")
             ELSE Returned(c, "NotPresent", 0)

\* pyunifi_WiFi_Controller.remove_mac_from_mac_filter
ctl_remove_mac_from_mac_filter(c, wifi_name, mac_address, net) ==
    IF ~net.read THEN Raised(c, "UpstreamUnavailable", "none")
    ELSE IF ~get_wifi_id_by_name(c, wifi_name)
         THEN Raised(c, "NetworkNotFound", "none")
    ELSE LET mac_address_list == get_current_mac_filter_list(c, wifi_name)
         IN  IF InList(Lower(mac_address), mac_address_list)
             THEN set_wifi_mac_filter_list(c, wifi_name,
                      ListRemove(mac_address_list, Lower(mac_address)),
                      net, "Removed")
             ELSE Returned(c, "NotPresent", 0)


(***************************************************************************)
(* EFGMACFile: the backup file and its two in-memory views                 *)
(***************************************************************************)
\* the file header write_macfile prepends: nine lines that start with '#'
\* (their text after the first characters is left out)
FileHeaderLine == <<"#", " ", "-", "\n">>
file_header == [n \in 1..9 |-> FileHeaderLine]

\* one data line: f'{mac_address.lower()};{wifi_name}   # {comment}\n'
DataLine(mac_address, wifi_name, comment) ==
    Lower(mac_address) \o SemiSep \o wifi_name
        \o <<" ", " ", " ", "#", " ">> \o comment \o <<"\n">>

\* the lines one WLAN's dict contributes, in the dict's order
RECURSIVE WifiLines(_, _)
WifiLines(wifi_name, macs) ==
    IF macs = <<>> THEN <<>>
    ELSE << DataLine(Head(macs).k, wifi_name, Head(macs).v) >>
            \o WifiLines(wifi_name, Tail(macs))

RECURSIVE ExtendedLines(_)
ExtendedLines(extended) ==
    IF extended = <<>> THEN <<>>
    ELSE WifiLines(Head(extended).k, Head(extended).v)
            \o ExtendedLines(Tail(extended))

\* write_macfile: the file is the header followed by one line per entry of
\* mac_address_list_extended
write_macfile(extended) == file_header \o ExtendedLines(extended)

\* the state of an EFGMACFile object with its file
MacObject(list, extended, file) ==
    [mac_address_list |-> list, mac_address_list_extended |-> extended,
     macfile |-> file]

\* _process_macfile, one line: `m` is the object so far.  A line that is
\* empty or starts with '#' is skipped; any other line is cut at '#' and
\* ';' (an IndexError when a piece is missing).
ProcessLine(m, l) ==
    IF l = <<>> \/ StartsWith(l, HashSep) THEN [err |-> "none", m |-> m]
    ELSE LET byhash == Split(l, HashSep)
             mac_address_wifi_name == Strip(byhash[1])
             bysemi == Split(mac_address_wifi_name, SemiSep)
         IN  IF Len(bysemi) < 2 \/ Len(byhash) < 2
             THEN [err |-> "MalformedLine", m |-> m]
             ELSE LET mac_address == Strip(bysemi[1])
                      wifi_name == Strip(bysemi[2])
                      comment == Strip(byhash[2])
                      list == IF wifi_name \in DictKeys(m.mac_address_list)
                              THEN m.mac_address_list
                              ELSE DictPut(m.mac_address_list, wifi_name, <<>>)
                      ext == IF wifi_name \in DictKeys(m.mac_address_list_extended)
                             THEN m.mac_address_list_extended
                             ELSE DictPut(m.mac_address_list_extended, wifi_name, <<>>)
                  IN  [err |-> "none",
                       m |-> [m EXCEPT
                          !.mac_address_list =
                              DictPut(list, wifi_name,
                                  Append(DictGet(list, wifi_name), mac_address)),
                          !.mac_address_list_extended =
                              DictPut(ext, wifi_name,
                                  DictPut(DictGet(ext, wifi_name),
                                          mac_address, comment))]]

RECURSIVE ProcessLines(_, _)
ProcessLines(m, lines) ==
    IF lines = <<>> THEN [err |-> "none", m |-> m]
    ELSE LET r == ProcessLine(m, Head(lines))
         IN  IF r.err # "none" THEN r ELSE ProcessLines(r.m, Tail(lines))

\* EFGMACFile.__init__ / _process_macfile on a file that exists
process_macfile(file) == ProcessLines(MacObject(<<>>, <<>>, file), file)

\* EFGMACFile.get_mac_list_for_wifi_name (a KeyError when the WLAN is not
\* in the store is left to the caller's test)
get_mac_list_for_wifi_name(m, wifi_name) == DictGet(m.mac_address_list, wifi_name)

\* EFGMACFile.add_mac
mac_add_mac(m, mac_address, wifi_name, comment) ==
    LET list0 == IF wifi_name \in DictKeys(m.mac_address_list)
                 THEN m.mac_address_list
                 ELSE DictPut(m.mac_address_list, wifi_name, <<>>)
        list1 == IF ~InList(Lower(mac_address), DictGet(list0, wifi_name))
                 THEN DictPut(list0, wifi_name,
                          Append(DictGet(list0, wifi_name), Lower(mac_address)))
                 ELSE list0
        ext0  == IF wifi_name \in DictKeys(m.mac_address_list_extended)
                 THEN m.mac_address_list_extended
                 ELSE DictPut(m.mac_address_list_extended, wifi_name, <<>>)
        ext1  == DictPut(ext0, wifi_name,
                     DictPut(DictGet(ext0, wifi_name), Lower(mac_address), comment))
    IN  [err |-> "none", m |-> MacObject(list1, ext1, write_macfile(ext1))]

\* remove_mac without the call of write_macfile
mac_remove_mac_nowrite(m, mac_address, wifi_name) ==
    IF /\ wifi_name \in DictKeys(m.mac_address_list)
       /\ ~InList(Lower(mac_address), DictGet(m.mac_address_list, wifi_name))
    THEN [err |-> "ValueError", m |-> m]
    ELSE LET ext == m.mac_address_list_extended
             ext1 == IF /\ wifi_name \in DictKeys(ext)
                        /\ Lower(mac_address) \in DictKeys(DictGet(ext, wifi_name))
                     THEN DictPut(ext, wifi_name,
                              DictDel(DictGet(ext, wifi_name), Lower(mac_address)))
                     ELSE ext
         IN  [err |-> "none",
              m |-> MacObject(m.mac_address_list, ext1, m.macfile)]

\* EFGMACFile.remove_mac: the first test reads `not in`, so list.remove is
\* reached exactly when the MAC is not in the list, where it raises
\* ValueError; a MAC that is in the list stays in it
mac_remove_mac(m, mac_address, wifi_name) ==
    IF /\ wifi_name \in DictKeys(m.mac_address_list)
       /\ ~InList(Lower(mac_address), DictGet(m.mac_address_list, wifi_name))
    THEN [err |-> "ValueError", m |-> m]
    ELSE LET ext == m.mac_address_list_extended
             ext1 == IF /\ wifi_name \in DictKeys(ext)
                        /\ Lower(mac_address) \in DictKeys(DictGet(ext, wifi_name))
                     THEN DictPut(ext, wifi_name,
                              DictDel(DictGet(ext, wifi_name), Lower(mac_address)))
                     ELSE ext
         IN  [err |-> "none",
              m |-> MacObject(m.mac_address_list, ext1, write_macfile(ext1))]

(***************************************************************************)
(* Task source: EFGTask, EFGTaskDetail, ManageEFGWiFiPlannerTasks          *)
(***************************************************************************)
\* a raw Planner task as the task board holds it
RawTask(planId, percentComplete, title, description) ==
    [planId |-> planId, percentComplete |-> percentComplete,
     title |-> title, description |-> description, etag |-> 0]

\* config: wifi_automation_plan_id
planner_wifi_automation_plan_id == "planX"

\* get_efg_parts_from_task that takes a missing field as empty
get_efg_parts_from_task_lenient(title) ==
    LET parts == Split(title, TitleSep)
        part(n) == IF n <= Len(parts) THEN parts[n] ELSE <<>>
    IN  [err |-> "none",
         efg_mac_command |-> Lower(Strip(part(1))),
         efg_mac_comment |-> Strip(part(2)),
         efg_wifi_name   |-> Strip(part(3))]

\* EFGTask.get_efg_parts_from_task: the three ' - ' separated title fields
\* (an IndexError when the title has fewer)
get_efg_parts_from_task(title) ==
    LET parts == Split(title, TitleSep)
    IN  IF Len(parts) < 3
        THEN [err |-> "MalformedTask"]
        ELSE [err |-> "none",
              efg_mac_command |-> Lower(Strip(parts[1])),
              efg_mac_comment |-> Strip(parts[2]),
              efg_wifi_name   |-> Strip(parts[3])]

\* EFGTaskDetail.get_efg__parts_from_task_details: the two '#' separated
\* description fields (an IndexError when there is no '#')
get_efg__parts_from_task_details(description) ==
    LET parts == Split(description, HashSep)
    IN  IF Len(parts) < 2
        THEN [err |-> "MalformedTask"]
        ELSE [err |-> "none",
              efg_flow_number |-> Strip(parts[1]),
              efg_mac_address |-> Strip(parts[2])]

\* the title test of line 317
TitleStartsWithCommand(title) ==
    StartsWith(Lower(title), ADDMAC) \/ StartsWith(Lower(title), DELMAC)

\* the three `continue` tests of get_all_open_EFGWiFiAutomation_planner_tasks
SkippedByTaskSource(task) ==
    \/ task.planId # planner_wifi_automation_plan_id
    \/ task.percentComplete = 100
    \/ ~TitleStartsWithCommand(task.title)

\* the outcome of the Planner transport: does get_my_tasks go through, and
\* do the get_task_details calls
PlannerOk == [tasks |-> TRUE, details |-> TRUE]
PlannerOutcomes == { PlannerOk, [tasks |-> FALSE, details |-> TRUE],
                     [tasks |-> TRUE, details |-> FALSE] }

\* the loop of get_all_open_EFGWiFiAutomation_planner_tasks from board
\* position n on; `acc` is self.open_tasks so far
RECURSIVE OpenTasksFrom(_, _, _, _)
OpenTasksFrom(b, n, acc, net) ==
    IF n > Len(b) THEN [err |-> "none", open_tasks |-> acc]
    ELSE IF SkippedByTaskSource(b[n]) THEN OpenTasksFrom(b, n + 1, acc, net)
    ELSE IF ~net.details
         THEN [err |-> "UpstreamUnavailable", open_tasks |-> acc]
    ELSE LET t == get_efg_parts_from_task(b[n].title)
             d == get_efg__parts_from_task_details(b[n].description)
         IN  IF t.err # "none" THEN [err |-> t.err, open_tasks |-> acc]
             ELSE IF d.err # "none" THEN [err |-> d.err, open_tasks |-> acc]
             ELSE OpenTasksFrom(b, n + 1,
                      Append(acc,
                          [idx |-> n,
                           etag |-> b[n].etag,
                           percentComplete |-> b[n].percentComplete,
                           efg_mac_command |-> t.efg_mac_command,
                           efg_mac_comment |-> t.efg_mac_comment,
                           efg_wifi_name   |-> t.efg_wifi_name,
                           efg_mac_address |-> d.efg_mac_address]),
                      net)

\* ManageEFGWiFiPlannerTasks.get_all_open_EFGWiFiAutomation_planner_tasks
get_all_open_EFGWiFiAutomation_planner_tasks(b, acc, net) ==
    IF ~net.tasks THEN [err |-> "UpstreamUnavailable", open_tasks |-> acc]
    ELSE OpenTasksFrom(b, 1, acc, net)

(***************************************************************************)
(* State                                                                   *)
(***************************************************************************)
VARIABLES
    board,      \* Planner: the raw tasks of the signed-in user, in order
    board0,     \* the board as it was when the run started
    ctl,        \* controller: WLAN name -> its mac_filter_list as stored
    mac_object, \* EFGMACFile: mac_address_list, mac_address_list_extended
                \*   and the lines of the file on disk
    config,     \* update_mac_file_on_add_remove, send_msteams_status_messages
    open_tasks, \* ManageEFGWiFiPlannerTasks.open_tasks
    i,          \* process_wifi_mac_tasks: the counter of processed tasks
    pc,         \* where the run is
    err,        \* the exception that ended the run, if any
    log,        \* the collaborator calls the run has made, in order
    notifications, \* the messages handed to the Teams webhook, in order
    edits,      \* number of upstream edits of tasks made during the run
    last,       \* FilterSpec: the latest Filter Client call and its outcome
    ncalls      \* FilterSpec: number of Filter Client calls made

runVars == <<board, board0, mac_object, config, open_tasks, i, pc, err, log,
             notifications, edits>>
callVars == <<last, ncalls>>
vars == <<board, board0, ctl, mac_object, config, open_tasks, i, pc, err, log,
          notifications, edits, last, ncalls>>

NoError == [kind |-> "none", step |-> "none"]

(***************************************************************************)
(* FilterSpec: any sequence of Filter Client add / remove calls            *)
(***************************************************************************)
\* The controller stores MACs in whatever letter case they were entered
\* (hence the lower-casing on read, lines 37 and 43), holds each address
\* once per WLAN, and may hold entries this program never validated.
InitialGuestLists == { <<>>, <<Mac1Up>>, <<Mac1, Mac2>>, <<MacBadHex>> }
InitialStaffLists == { <<>>, <<Mac2Up>> }
InitialControllers ==
    { (Guest :> g) @@ (Staff :> s) :
         g \in InitialGuestLists, s \in InitialStaffLists }

\* the WLAN names and MAC literals the calls are made with
CallWifiNames == {Guest, Staff, Nope}
CallMacs == {Mac1, Mac1Up, Mac2, Mac2Bare, Mac1Dash}

NoCall ==
    [op |-> "none", wifi_name |-> <<>>, mac_address |-> <<>>, net |-> NetOk,
     branch |-> "none", err |-> "none", writes |-> 0,
     before |-> <<>>, again |-> FALSE]

\* the record of a call: its arguments, the transport's behaviour, the
\* controller's lists before it, its outcome, and whether it repeats the
\* previous call (same operation, WLAN and MAC) after that call returned
CallRecord(op, wifi_name, mac_address, net, r) ==
    [op |-> op, wifi_name |-> wifi_name, mac_address |-> mac_address,
     net |-> net, branch |-> r.branch, err |-> r.err, writes |-> r.writes,
     before |-> ctl,
     again |-> /\ last.op = op
               /\ last.wifi_name = wifi_name
               /\ last.mac_address = mac_address
               /\ last.err = "none"]

\* the run's variables while no run is going on
NoRun ==
    /\ board = <<>>
    /\ board0 = <<>>
    /\ mac_object = MacObject(<<>>, <<>>, file_header)
    /\ config = [update_mac_file_on_add_remove |-> FALSE,
                 send_msteams_status_messages |-> FALSE]
    /\ open_tasks = <<>>
    /\ i = 0
    /\ pc = "idle"
    /\ err = NoError
    /\ log = <<>>
    /\ notifications = <<>>
    /\ edits = 0

FilterInit ==
    /\ ctl \in InitialControllers
    /\ last = NoCall
    /\ ncalls = 0
    /\ NoRun

AddCall ==
    /\ pc = "idle"
    /\ ncalls < MaxCalls
    /\ \E wifi_name \in CallWifiNames, mac_address \in CallMacs,
          net \in NetOutcomes :
          LET r == ctl_add_mac_to_mac_filter(ctl, wifi_name, mac_address, net)
          IN  /\ ctl' = r.ctl
              /\ last' = CallRecord("add", wifi_name, mac_address, net, r)
    /\ ncalls' = ncalls + 1
    /\ UNCHANGED runVars

RemoveCall ==
    /\ pc = "idle"
    /\ ncalls < MaxCalls
    /\ \E wifi_name \in CallWifiNames, mac_address \in CallMacs,
          net \in NetOutcomes :
          LET r == ctl_remove_mac_from_mac_filter(ctl, wifi_name, mac_address, net)
          IN  /\ ctl' = r.ctl
              /\ last' = CallRecord("remove", wifi_name, mac_address, net, r)
    /\ ncalls' = ncalls + 1
    /\ UNCHANGED runVars

FilterNext == AddCall \/ RemoveCall

FilterSpec == FilterInit /\ [][FilterNext]_vars

(***************************************************************************)
(* SetSpec: any sequence of set_wifi_mac_filter_list calls                 *)
(***************************************************************************)
\* the lists the calls are made with: valid ones, in either letter case,
\* and ones with an invalid MAC first, last or alone
SetLists ==
    { <<>>, <<Mac1>>, <<Mac2Up>>, <<Mac1, Mac2Up>>, <<Mac1, Mac1>>,
      <<Mac1Dash>>, <<Mac1, Mac1Dash>>, <<MacBadHex, Mac1>> }

\* the record of a set_wifi_mac_filter_list call
SetRecord(wifi_name, mac_address_list, net, r) ==
    [op |-> "set", wifi_name |-> wifi_name, mac_address |-> <<>>,
     list |-> mac_address_list, net |-> net, branch |-> r.branch,
     err |-> r.err, writes |-> r.writes, before |-> ctl, again |-> FALSE]

SetInit ==
    /\ ctl \in InitialControllers
    /\ last = NoCall
    /\ ncalls = 0
    /\ NoRun

SetCall ==
    /\ pc = "idle"
    /\ ncalls < MaxSets
    /\ \E wifi_name \in CallWifiNames, mac_address_list \in SetLists,
          net \in NetOutcomes :
          LET r == set_wifi_mac_filter_list(ctl, wifi_name, mac_address_list,
                                            net, "none")
          IN  /\ ctl' = r.ctl
              /\ last' = SetRecord(wifi_name, mac_address_list, net, r)
    /\ ncalls' = ncalls + 1
    /\ UNCHANGED runVars

SetNext == SetCall

SetSpec == SetInit /\ [][SetNext]_vars

(***************************************************************************)
(* ValidatorSpec: _validate_mac_filter_list applied to one literal          *)
(***************************************************************************)
\* the six groups of a literal: lower-case, upper-case, with a letter that
\* is no hex digit, and with a one-character group
ValidatorGroups ==
    { << <<"a","a">>, <<"b","b">>, <<"c","c">>, <<"d","d">>, <<"e","e">>, <<"0","1">> >>,
      << <<"A","A">>, <<"B","B">>, <<"C","C">>, <<"D","D">>, <<"E","E">>, <<"0","F">> >>,
      << <<"a","a">>, <<"b","b">>, <<"c","c">>, <<"d","d">>, <<"e","e">>, <<"0","g">> >>,
      << <<"a","a">>, <<"b","b">>, <<"c","c">>, <<"d","d">>, <<"e","e">>, <<"0">> >> }

\* the five separators, each a colon, a dash or absent
ValidatorSeparators == [1..5 -> { <<":">>, <<"-">>, <<>> }]

\* what follows the last group: nothing, a newline, a blank, one more digit
ValidatorSuffixes == { <<>>, <<"\n">>, <<" ">>, <<"0">> }

\* the literal made of the groups g, the separators sep and the suffix
MacLiteral(g, sep, suffix) ==
    g[1] \o sep[1] \o g[2] \o sep[2] \o g[3] \o sep[3] \o g[4]
         \o sep[4] \o g[5] \o sep[5] \o g[6] \o suffix

ValidatorInit ==
    /\ ctl = (Guest :> <<>>) @@ (Staff :> <<>>)
    /\ last = NoCall
    /\ ncalls = 0
    /\ NoRun

\* _validate_mac_filter_list([mac_address])
ValidateCall ==
    /\ pc = "idle"
    /\ ncalls = 0
    /\ \E g \in ValidatorGroups, sep \in ValidatorSeparators,
          suffix \in ValidatorSuffixes :
          LET mac_address == MacLiteral(g, sep, suffix)
          IN  last' = [NoCall EXCEPT
                         !.op = "validate",
                         !.mac_address = mac_address,
                         !.err = IF validate_mac_filter_list(<<mac_address>>)
                                 THEN "none" ELSE "InvalidMacFormat"]
    /\ ncalls' = ncalls + 1
    /\ UNCHANGED <<ctl, runVars>>

ValidatorNext == ValidateCall

ValidatorSpec == ValidatorInit /\ [][ValidatorNext]_vars

(***************************************************************************)
(* Spec: one reconciliation run (process_wifi_mac_tasks)                   *)
(***************************************************************************)
JDoe == <<"J", ".", " ", "D", "o", "e">>
KRoe == <<"K", ".", " ", "R", "o", "e">>

\* a task title "<command> - <comment> - <wifi name>"
Title(command, comment, wifi_name) ==
    command \o TitleSep \o comment \o TitleSep \o wifi_name

\* a task description "<flow number>#<mac>"
Description(mac_address) == <<"7">> \o HashSep \o mac_address

\* the tasks a board is drawn from
\* "ADDMAC - J. Doe - Guest", "7#AA:BB:CC:DD:EE:01"
TaskAddUpper ==
    RawTask("planX", 0, Title(Upper(ADDMAC), JDoe, Guest), Description(Mac1Up))
\* "delmac - J. Doe - Guest", "7# aa:bb:cc:dd:ee:01 ", half done
TaskDelPartial ==
    RawTask("planX", 50, Title(DELMAC, JDoe, Guest),
            <<"7">> \o HashSep \o <<" ">> \o Mac1 \o <<" ">>)
\* "addmac - K. Roe - Staff", "7#aa:bb:cc:dd:ee:02"
TaskAddStaff ==
    RawTask("planX", 0, Title(ADDMAC, KRoe, Staff), Description(Mac2))
\* a task of another plan
TaskOtherPlan ==
    RawTask("planY", 0, Title(ADDMAC, JDoe, Guest), Description(Mac1))
\* a completed task
TaskCompleted ==
    RawTask("planX", 100, Title(ADDMAC, JDoe, Guest), Description(Mac1))
\* "hello - J. Doe - Guest": no MAC command
TaskHello ==
    RawTask("planX", 0, Title(<<"h","e","l","l","o">>, JDoe, Guest),
            Description(Mac1))
\* "addmacs - J. Doe - Guest": the command field is "addmacs"
TaskAddmacs ==
    RawTask("planX", 0, Title(ADDMAC \o <<"s">>, JDoe, Guest), Description(Mac1))
\* " addmac - J. Doe - Guest": a leading blank before the command
TaskLeadingBlank ==
    RawTask("planX", 0, Title(<<" ">> \o ADDMAC, JDoe, Guest), Description(Mac1))
\* "addmac": a title without the comment and WLAN fields
TaskNoFields ==
    RawTask("planX", 0, ADDMAC, Description(Mac1))
\* a description without '#'
TaskNoHash ==
    RawTask("planX", 0, Title(ADDMAC, JDoe, Guest), Mac1)
\* "addmac - J. Doe - Guest" with the MAC "aa-bb-cc-dd-ee-01"
TaskBadMac ==
    RawTask("planX", 0, Title(ADDMAC, JDoe, Guest), Description(Mac1Dash))
\* "delmac - J. Doe - Nope": a WLAN the controller does not have
TaskNoSuchWifi ==
    RawTask("planX", 0, Title(DELMAC, JDoe, Nope), Description(Mac1))

\* "addmac - K. Roe - Staff" with the MAC "aabbccddee02"
TaskAddBare ==
    RawTask("planX", 0, Title(ADDMAC, KRoe, Staff), Description(Mac2Bare))

RunTaskPool ==
    { TaskAddUpper, TaskDelPartial, TaskAddmacs, TaskLeadingBlank,
      TaskNoFields, TaskNoHash, TaskBadMac, TaskNoSuchWifi, TaskAddBare }

\* the sequences over S of length at most n
SeqsUpTo(S, n) == UNION { [1..m -> S] : m \in 0..n }

\* the controller at the start of a run
RunControllers ==
    { (Guest :> <<>>) @@ (Staff :> <<>>),
      (Guest :> <<Mac1Up>>) @@ (Staff :> <<Mac2>>) }

\* the backup file at the start of a run: as write_macfile left it
RunMacFiles ==
    { write_macfile(<<>>),
      write_macfile(<< [k |-> Guest, v |-> << [k |-> Mac2, v |-> KRoe] >>] >>) }

Init ==
    /\ board \in SeqsUpTo(RunTaskPool, MaxTasks)
    /\ board0 = board
    /\ ctl \in RunControllers
    /\ \E file \in RunMacFiles : mac_object = MacObject(<<>>, <<>>, file)
    /\ config \in [update_mac_file_on_add_remove : BOOLEAN,
                   send_msteams_status_messages : BOOLEAN]
    /\ open_tasks = <<>>
    /\ i = 0
    /\ pc = "start"
    /\ err = NoError
    /\ log = <<>>
    /\ notifications = <<>>
    /\ edits = 0
    /\ last = NoCall
    /\ ncalls = 0

\* raise: the exception leaves process_wifi_mac_tasks for the wrapper
Raise(kind, step) ==
    /\ err' = [kind |-> kind, step |-> step]
    /\ pc' = "except"

\* the task the loop is at
task == open_tasks[i + 1]

\* one entry of the log of collaborator calls
Event(op, r) == [op |-> op, idx |-> task.idx, err |-> r.err]

\* lines 112-115: MSTeamsAutomationNotifications() raises (the config file
\* or one of its keys is missing); the wrapper logs the exception and
\* returns without starting the run
NotifierSetupFails ==
    /\ pc = "start"
    /\ pc' = "nonotifier"
    /\ UNCHANGED <<board, board0, ctl, mac_object, config, open_tasks, i, err,
                   log, notifications, edits, callVars>>

\* lines 65-66: ManageEFGWiFiPlannerTasks() starts with no open tasks,
\* Manage_MACFilter() reads the MAC file
Setup ==
    /\ pc = "start"
    /\ LET r == process_macfile(mac_object.macfile)
       IN  IF r.err = "none"
           THEN /\ mac_object' = r.m
                /\ pc' = "list"
                /\ err' = err
           ELSE /\ mac_object' = mac_object
                /\ Raise(r.err, "setup")
    /\ open_tasks' = <<>>
    /\ UNCHANGED <<board, board0, ctl, config, i, log, notifications, edits, callVars>>

\* line 70: the call of get_all_open_EFGWiFiAutomation_planner_tasks
ListOpenTasks ==
    /\ pc = "list"
    /\ \E net \in PlannerOutcomes :
          LET r == get_all_open_EFGWiFiAutomation_planner_tasks(
                       board, open_tasks, net)
          IN  /\ open_tasks' = r.open_tasks
              /\ IF r.err = "none"
                 THEN pc' = "loop" /\ err' = err
                 ELSE Raise(r.err, "list")
    /\ UNCHANGED <<board, board0, ctl, mac_object, config, i, log, notifications,
                   edits, callVars>>

\* lines 70-85: the loop takes the next task and dispatches on its command
\* (ValueError for any other command), or ends
Dispatch ==
    /\ pc = "loop"
    /\ IF i >= Len(open_tasks)
       THEN pc' = "status" /\ err' = err
       ELSE IF task.efg_mac_command \in {ADDMAC, DELMAC}
            THEN pc' = "filter" /\ err' = err
            ELSE Raise("InvalidCommand", "dispatch")
    /\ UNCHANGED <<board, board0, ctl, mac_object, config, open_tasks, i, log,
                   notifications, edits, callVars>>

\* a Manage_MACFilter that never calls the MAC file object
AfterFilter_skip(update_mac_file_on_add_remove) == "mark_done"

\* Manage_MACFilter: the step that follows the controller call, which
\* update_mac_file_on_add_remove decides (lines 371 and 388)
AfterFilter(update_mac_file_on_add_remove) ==
    IF update_mac_file_on_add_remove THEN "backup" ELSE "mark_done"

\* Manage_MACFilter.add_mac_to_mac_filter / remove_mac_from_mac_filter,
\* first half: the call of the controller client
FilterStep ==
    /\ pc = "filter"
    /\ \E net \in NetOutcomes :
          LET r == IF task.efg_mac_command = ADDMAC
                   THEN ctl_add_mac_to_mac_filter(
                            ctl, task.efg_wifi_name, task.efg_mac_address, net)
                   ELSE ctl_remove_mac_from_mac_filter(
                            ctl, task.efg_wifi_name, task.efg_mac_address, net)
          IN  /\ ctl' = r.ctl
              /\ log' = Append(log, Event("filter", r))
              /\ IF r.err = "none"
                 THEN /\ pc' = AfterFilter(config.update_mac_file_on_add_remove)
                      /\ err' = err
                 ELSE Raise(r.err, "filter")
    /\ UNCHANGED <<board, board0, mac_object, config, open_tasks, i, notifications,
                   edits, callVars>>

\* Manage_MACFilter.add_mac_to_mac_filter / remove_mac_from_mac_filter,
\* second half: the call of the MAC file object
BackupStep ==
    /\ pc = "backup"
    /\ LET r == IF task.efg_mac_command = ADDMAC
                THEN mac_add_mac(mac_object, task.efg_mac_address,
                                 task.efg_wifi_name, task.efg_mac_comment)
                ELSE mac_remove_mac(mac_object, task.efg_mac_address,
                                    task.efg_wifi_name)
       IN  /\ mac_object' = r.m
           /\ log' = Append(log, Event("backup", r))
           /\ IF r.err = "none"
              THEN pc' = "mark_done" /\ err' = err
              ELSE Raise(r.err, "backup")
    /\ UNCHANGED <<board, board0, ctl, config, open_tasks, i, notifications, edits,
                   callVars>>

\* a patch without the If-Match precondition
PatchResult_noetag(b, t, up) ==
    IF ~up THEN "UpstreamUnavailable" ELSE "none"

\* the answer of PATCH /planner/tasks/<id> with If-Match: the transport may
\* fail, and the server refuses (412) an etag that is no longer the task's
PatchResult(b, t, up) ==
    IF ~up THEN "UpstreamUnavailable"
    ELSE IF b[t.idx].etag # t.etag THEN "ConcurrentModification"
    ELSE "none"

\* set_task_completed over a connection that does not raise on an HTTP
\* error status: a refused patch goes unnoticed and the loop goes on
MarkDone_swallow ==
    /\ pc = "mark_done"
    /\ \E up \in BOOLEAN :
          LET r == [err |-> PatchResult(board, task, up)]
          IN  /\ open_tasks' = [open_tasks EXCEPT ![i + 1].percentComplete = 100]
              /\ log' = Append(log, Event("mark_done", r))
              /\ board' = IF r.err = "none"
                          THEN [board EXCEPT
                                   ![task.idx].percentComplete = 100,
                                   ![task.idx].etag = @ + 1]
                          ELSE board
              /\ i' = i + 1
              /\ pc' = "loop"
              /\ err' = err
    /\ UNCHANGED <<board0, ctl, mac_object, config, notifications, edits,
                   callVars>>

\* lines 87-88: task.set_task_completed(), then i += 1.  The connection
\* raises on an HTTP error status (O365's default), so a refused patch
\* leaves the loop before the counter is incremented.
MarkDone ==
    /\ pc = "mark_done"
    /\ \E up \in BOOLEAN :
          LET r == [err |-> PatchResult(board, task, up)]
          IN  /\ open_tasks' = [open_tasks EXCEPT ![i + 1].percentComplete = 100]
              /\ log' = Append(log, Event("mark_done", r))
              /\ IF r.err = "none"
                 THEN /\ board' = [board EXCEPT
                                     ![task.idx].percentComplete = 100,
                                     ![task.idx].etag = @ + 1]
                      /\ i' = i + 1
                      /\ pc' = "loop"
                      /\ err' = err
                 ELSE /\ board' = board
                      /\ i' = i
                      /\ Raise(r.err, "mark_done")
    /\ UNCHANGED <<board0, ctl, mac_object, config, notifications, edits,
                   callVars>>

\* somebody edits the task in Planner while the run works on it: the task
\* gets a new etag.  (An edit at any moment between the listing and the
\* patch has the same effect as one just before the patch.)
UpstreamEdit ==
    /\ pc = "mark_done"
    /\ edits < MaxEdits
    /\ board' = [board EXCEPT ![task.idx].etag = @ + 1]
    /\ edits' = edits + 1
    /\ UNCHANGED <<board0, ctl, mac_object, config, open_tasks, i, pc, err,
                   log, notifications, callVars>>

\* a status message that never reports "no open tasks"
StatusMessage_processed(n) ==
    [type |-> "info", text |-> "processed N WiFi MAC tasks...", n |-> n]

\* the status message of lines 92-95
StatusMessage(n) ==
    IF n = 0 THEN [type |-> "info", text |-> "No open WiFi MAC tasks found...", n |-> 0]
    ELSE [type |-> "info", text |-> "processed N WiFi MAC tasks...", n |-> n]

\* lines 90-97: the status message, when configured.  The webhook call may
\* raise; here that is inside the wrapper's try.
SendStatus ==
    /\ pc = "status"
    /\ IF config.send_msteams_status_messages
       THEN \E delivered \in BOOLEAN :
               /\ notifications' = Append(notifications,
                      [msg |-> StatusMessage(i), delivered |-> delivered])
               /\ IF delivered
                  THEN pc' = "ended" /\ err' = err
                  ELSE Raise("NotifierError", "status")
       ELSE /\ notifications' = notifications
            /\ pc' = "ended"
            /\ err' = err
    /\ UNCHANGED <<board, board0, ctl, mac_object, config, open_tasks, i, log, edits,
                   callVars>>

\* a wrapper that, after the error message, runs the loop again
HandleException_retry ==
    /\ pc = "except"
    /\ \E delivered \in BOOLEAN :
          /\ notifications' = Append(notifications,
                 [msg |-> [type |-> "error", text |-> err.kind],
                  delivered |-> delivered])
          /\ pc' = IF delivered /\ Len(notifications) = 0
                   THEN "loop" ELSE "crashed"
    /\ UNCHANGED <<board, board0, ctl, mac_object, config, open_tasks, i, err, log,
                   edits, callVars>>

\* a wrapper that, on an error, re-opens the tasks the run has completed
HandleException_rollback ==
    /\ pc = "except"
    /\ \E delivered \in BOOLEAN :
          /\ notifications' = Append(notifications,
                 [msg |-> [type |-> "error", text |-> err.kind],
                  delivered |-> delivered])
          /\ pc' = IF delivered THEN "failed" ELSE "crashed"
    /\ board' = [n \in DOMAIN board |->
                    [board[n] EXCEPT !.percentComplete = board0[n].percentComplete]]
    /\ UNCHANGED <<board0, ctl, mac_object, config, open_tasks, i, err, log,
                   edits, callVars>>

\* a wrapper that sends the status message on the error path as well
HandleException_withStatus ==
    /\ pc = "except"
    /\ \E delivered \in BOOLEAN :
          /\ notifications' = notifications \o
                 << [msg |-> [type |-> "info",
                              text |-> "processed N WiFi MAC tasks...",
                              n |-> i],
                     delivered |-> TRUE],
                    [msg |-> [type |-> "error", text |-> err.kind],
                     delivered |-> delivered] >>
          /\ pc' = IF delivered THEN "failed" ELSE "crashed"
    /\ UNCHANGED <<board, board0, ctl, mac_object, config, open_tasks, i, err, log,
                   edits, callVars>>

\* lines 121-124: the wrapper's except clause sends the error message; when
\* that call raises too, the exception leaves the wrapper
HandleException ==
    /\ pc = "except"
    /\ \E delivered \in BOOLEAN :
          /\ notifications' = Append(notifications,
                 [msg |-> [type |-> "error", text |-> err.kind],
                  delivered |-> delivered])
          /\ pc' = IF delivered THEN "failed" ELSE "crashed"
    /\ UNCHANGED <<board, board0, ctl, mac_object, config, open_tasks, i, err, log,
                   edits, callVars>>

\* lines 173-179 with the interpreter's rule: the process ends with status 1
\* when an exception leaves process_wifi_mac_tasks, and with status 0 when
\* the call returns (nothing calls sys.exit)
ExitStatus == IF pc = "crashed" THEN 1 ELSE 0

Next ==
    \/ NotifierSetupFails
    \/ Setup
    \/ ListOpenTasks
    \/ Dispatch
    \/ FilterStep
    \/ BackupStep
    \/ MarkDone
    \/ UpstreamEdit
    \/ SendStatus
    \/ HandleException

Spec == Init /\ [][Next]_vars

\* the steps of the program itself: every action but the edit somebody
\* else makes in Planner
RunStep ==
    \/ NotifierSetupFails
    \/ Setup
    \/ ListOpenTasks
    \/ Dispatch
    \/ FilterStep
    \/ BackupStep
    \/ MarkDone
    \/ SendStatus
    \/ HandleException

\* the run as one thread that goes from one statement to the next: every
\* call it makes returns or raises, so a step that can be taken is taken
LiveSpec == Init /\ [][Next]_vars /\ WF_vars(RunStep)

(***************************************************************************)
(* TaskSpec: one call of get_all_open_EFGWiFiAutomation_planner_tasks on   *)
(* any board of up to MaxBoard tasks                                       *)
(***************************************************************************)
ListTaskPool ==
    { TaskAddUpper, TaskDelPartial, TaskOtherPlan, TaskCompleted, TaskHello,
      TaskAddmacs, TaskLeadingBlank, TaskNoFields, TaskNoHash }

TaskInit ==
    /\ board \in SeqsUpTo(ListTaskPool, MaxBoard)
    /\ board0 = board
    /\ ctl = (Guest :> <<>>) @@ (Staff :> <<>>)
    /\ mac_object = MacObject(<<>>, <<>>, file_header)
    /\ config = [update_mac_file_on_add_remove |-> FALSE,
                 send_msteams_status_messages |-> FALSE]
    /\ open_tasks = <<>>
    /\ i = 0
    /\ pc = "list"
    /\ err = NoError
    /\ log = <<>>
    /\ notifications = <<>>
    /\ edits = 0
    /\ last = NoCall
    /\ ncalls = 0

TaskNext == ListOpenTasks

TaskSpec == TaskInit /\ [][TaskNext]_vars

\* ---------------------------------------------------------------------------
\* Repeated listings on one ManageEFGWiFiPlannerTasks object (RelistSpec):
\* open_tasks is the attribute self.open_tasks, which __init__ sets to []
\* ---------------------------------------------------------------------------

RelistTaskPool == { TaskAddUpper, TaskDelPartial, TaskCompleted, TaskHello }

RelistInit ==
    /\ board \in SeqsUpTo(RelistTaskPool, MaxBoard)
    /\ board0 = board
    /\ ctl = (Guest :> <<>>) @@ (Staff :> <<>>)
    /\ mac_object = MacObject(<<>>, <<>>, file_header)
    /\ config = [update_mac_file_on_add_remove |-> FALSE,
                 send_msteams_status_messages |-> FALSE]
    /\ open_tasks = <<>>
    /\ i = 0
    /\ pc = "idle"
    /\ err = NoError
    /\ log = <<>>
    /\ notifications = <<>>
    /\ edits = 0
    /\ last = NoCall
    /\ ncalls = 0

\* one call of get_all_open_EFGWiFiAutomation_planner_tasks on the object;
\* `last` holds what the call returned (or the exception it raised)
ListCall ==
    /\ pc = "idle"
    /\ ncalls < MaxLists
    /\ \E net \in PlannerOutcomes :
          LET r == get_all_open_EFGWiFiAutomation_planner_tasks(
                       board, open_tasks, net)
          IN  /\ open_tasks' = r.open_tasks
              /\ last' = [op |-> "list", err |-> r.err,
                          returned |-> IF r.err = "none" THEN r.open_tasks
                                       ELSE <<>>]
    /\ ncalls' = ncalls + 1
    /\ UNCHANGED <<board, board0, ctl, mac_object, config, i, pc, err, log,
                   notifications, edits>>

RelistNext == ListCall

RelistSpec == RelistInit /\ [][RelistNext]_vars

(***************************************************************************)
(* BackupSpec: any sequence of EFGMACFile add_mac / remove_mac calls and   *)
(* of loads of the file into a new EFGMACFile object                       *)
(***************************************************************************)
\* "Apt #3": a comment with a hash character
AptNo == <<"A", "p", "t", " ", "#", "3">>

StoreMacs == {Mac1Up, Mac2}
StoreWifiNames == {Guest, Staff}
StoreComments == {JDoe, AptNo}

\* the record of an EFGMACFile call: `before` is the object before it
StoreRecord(op, wifi_name, mac_address, comment, r) ==
    [op |-> op, wifi_name |-> wifi_name, mac_address |-> mac_address,
     comment |-> comment, err |-> r.err, before |-> mac_object]

\* the object is loaded from a file that write_macfile left
BackupInit ==
    /\ \E file \in RunMacFiles : mac_object = process_macfile(file).m
    /\ board = <<>>
    /\ board0 = <<>>
    /\ ctl = (Guest :> <<>>) @@ (Staff :> <<>>)
    /\ config = [update_mac_file_on_add_remove |-> TRUE,
                 send_msteams_status_messages |-> FALSE]
    /\ open_tasks = <<>>
    /\ i = 0
    /\ pc = "idle"
    /\ err = NoError
    /\ log = <<>>
    /\ notifications = <<>>
    /\ edits = 0
    /\ last = NoCall
    /\ ncalls = 0

storeVars == <<board, board0, ctl, config, open_tasks, i, pc, err, log,
               notifications, edits>>

\* EFGMACFile.add_mac(mac_address, wifi_name, comment)
StoreAdd ==
    /\ pc = "idle"
    /\ ncalls < MaxStores
    /\ \E mac_address \in StoreMacs, wifi_name \in StoreWifiNames,
          comment \in StoreComments :
          LET r == mac_add_mac(mac_object, mac_address, wifi_name, comment)
          IN  /\ mac_object' = r.m
              /\ last' = StoreRecord("store_add", wifi_name, mac_address,
                                     comment, r)
    /\ ncalls' = ncalls + 1
    /\ UNCHANGED storeVars

\* EFGMACFile.remove_mac(mac_address, wifi_name)
StoreRemove ==
    /\ pc = "idle"
    /\ ncalls < MaxStores
    /\ \E mac_address \in StoreMacs, wifi_name \in StoreWifiNames :
          LET r == mac_remove_mac(mac_object, mac_address, wifi_name)
          IN  /\ mac_object' = r.m
              /\ last' = StoreRecord("store_remove", wifi_name, mac_address,
                                     <<>>, r)
    /\ ncalls' = ncalls + 1
    /\ UNCHANGED storeVars

\* EFGMACFile(macfile): a new object is loaded from the file on disk
StoreLoad ==
    /\ pc = "idle"
    /\ ncalls < MaxStores
    /\ LET r == process_macfile(mac_object.macfile)
       IN  /\ mac_object' = r.m
           /\ last' = StoreRecord("store_load", <<>>, <<>>, <<>>, r)
    /\ ncalls' = ncalls + 1
    /\ UNCHANGED storeVars

BackupNext == StoreAdd \/ StoreRemove \/ StoreLoad

BackupSpec == BackupInit /\ [][BackupNext]_vars

(***************************************************************************)
(* LoadSpec: loads of a MAC file that somebody has edited by hand          *)
(***************************************************************************)
\* a blank line, as readlines() returns it
BlankLine == <<"\n">>
\* a comment line with '#' in column 1
NoteLine == <<"#", " ", "n", "o", "t", "e", "\n">>

\* the entries (network, mac, comment) the data lines are written for
LoadEntries == { <<Guest, Mac1, JDoe>>, <<Staff, Mac2, KRoe>> }

\* the lines that follow the header: blank lines, comment lines and
\* well-formed data lines, in any order
LoadLines ==
    { BlankLine, NoteLine } \cup { DataLine(t[2], t[1], t[3]) : t \in LoadEntries }

LoadInit ==
    /\ \E lines \in SeqsUpTo(LoadLines, MaxLines) :
          mac_object = MacObject(<<>>, <<>>, file_header \o lines)
    /\ board = <<>>
    /\ board0 = <<>>
    /\ ctl = (Guest :> <<>>) @@ (Staff :> <<>>)
    /\ config = [update_mac_file_on_add_remove |-> TRUE,
                 send_msteams_status_messages |-> FALSE]
    /\ open_tasks = <<>>
    /\ i = 0
    /\ pc = "idle"
    /\ err = NoError
    /\ log = <<>>
    /\ notifications = <<>>
    /\ edits = 0
    /\ last = NoCall
    /\ ncalls = 0

LoadNext == StoreLoad

LoadSpec == LoadInit /\ [][LoadNext]_vars

(***************************************************************************)
(* AddSpec: a MAC file that may have been edited by hand is loaded, then   *)
(* any sequence of EFGMACFile.add_mac calls follows                        *)
(***************************************************************************)
\* a data line as an editor may write it: the MAC in the case given
RawDataLine(mac_address, wifi_name, comment) ==
    mac_address \o SemiSep \o wifi_name
        \o <<" ", " ", " ", "#", " ">> \o comment \o <<"\n">>

\* the files: as write_macfile leaves them, or with an upper-case MAC
EditedMacFiles ==
    RunMacFiles \cup
       { file_header \o << RawDataLine(Mac1Up, Guest, JDoe) >>,
         file_header \o << RawDataLine(Mac1Up, Guest, JDoe),
                           RawDataLine(Mac2, Staff, KRoe) >> }

AddInit ==
    /\ \E file \in EditedMacFiles : mac_object = process_macfile(file).m
    /\ board = <<>>
    /\ board0 = <<>>
    /\ ctl = (Guest :> <<>>) @@ (Staff :> <<>>)
    /\ config = [update_mac_file_on_add_remove |-> TRUE,
                 send_msteams_status_messages |-> FALSE]
    /\ open_tasks = <<>>
    /\ i = 0
    /\ pc = "idle"
    /\ err = NoError
    /\ log = <<>>
    /\ notifications = <<>>
    /\ edits = 0
    /\ last = NoCall
    /\ ncalls = 0

AddNext == StoreAdd

AddSpec == AddInit /\ [][AddNext]_vars

\* ---------------------------------------------------------------------------
\* The rewrite of the MAC file, step by step (RewriteSpec).  mac_object.macfile
\* is the file on disk as a reader sees it; `i` counts the lines the program
\* has handed to the stream `f`; last.before.macfile is the file before the
\* rewrite.
\* ---------------------------------------------------------------------------

\* the text write_macfile is about to produce for the object in memory
NewContents == write_macfile(mac_object.mac_address_list_extended)

rewriteVars == <<board, board0, ctl, config, open_tasks, err, log,
                 notifications, edits>>

\* add_mac / remove_mac update the object in memory and call write_macfile,
\* whose open(self.macfile, 'w') truncates the file on disk
RewriteOpen ==
    /\ pc = "idle"
    /\ ncalls < MaxStores
    /\ \E mac_address \in StoreMacs, wifi_name \in StoreWifiNames,
          comment \in StoreComments, add \in BOOLEAN :
          LET r == IF add
                   THEN mac_add_mac(mac_object, mac_address, wifi_name, comment)
                   ELSE mac_remove_mac(mac_object, mac_address, wifi_name)
          IN  /\ ~add => comment = JDoe
              /\ r.err = "none"
              /\ mac_object' = [r.m EXCEPT !.macfile = <<>>]
              /\ last' = StoreRecord(IF add THEN "store_add" ELSE "store_remove",
                                     wifi_name, mac_address, comment, r)
    /\ i' = 0
    /\ pc' = "writing"
    /\ ncalls' = ncalls + 1
    /\ UNCHANGED rewriteVars

\* f.write(file_header), then one f.write per entry: the text goes to the
\* buffer of the stream
RewriteWrite ==
    /\ pc = "writing"
    /\ i < Len(NewContents)
    /\ i' = IF i = 0 THEN Len(file_header) ELSE i + 1
    /\ UNCHANGED <<mac_object, last, pc, ncalls>>
    /\ UNCHANGED rewriteVars

\* the stream empties its buffer into the file when the buffer is full; the
\* sizes of the lines are not modelled, so this may happen after any write
RewriteFlush ==
    /\ pc = "writing"
    /\ Len(mac_object.macfile) < i
    /\ mac_object' = [mac_object EXCEPT !.macfile = SubSeq(NewContents, 1, i)]
    /\ UNCHANGED <<last, i, pc, ncalls>>
    /\ UNCHANGED rewriteVars

\* the end of the `with` block: the rest of the buffer reaches the file
RewriteClose ==
    /\ pc = "writing"
    /\ i = Len(NewContents)
    /\ mac_object' = [mac_object EXCEPT !.macfile = NewContents]
    /\ pc' = "idle"
    /\ UNCHANGED <<last, i, ncalls>>
    /\ UNCHANGED rewriteVars

\* the process stops in the middle of the rewrite: an exception unwinds the
\* `with` block, which closes the stream (flushed), or the process is killed
\* and the buffer is lost
RewriteInterrupt ==
    /\ pc = "writing"
    /\ \E flushed \in BOOLEAN :
          mac_object' = IF flushed
                        THEN [mac_object EXCEPT
                                 !.macfile = SubSeq(NewContents, 1, i)]
                        ELSE mac_object
    /\ pc' = "interrupted"
    /\ UNCHANGED <<last, i, ncalls>>
    /\ UNCHANGED rewriteVars

RewriteNext ==
    \/ RewriteOpen
    \/ RewriteWrite
    \/ RewriteFlush
    \/ RewriteClose
    \/ RewriteInterrupt

RewriteSpec == BackupInit /\ [][RewriteNext]_vars

(***************************************************************************)
(* RetrySpec: the program is run again after a run that ended in an error, *)
(* with mirroring on and one task on the board                             *)
(***************************************************************************)
\* the backup file at the start: empty, one entry, or two entries of Guest
RetryMacFiles ==
    RunMacFiles \cup
       { write_macfile(<< [k |-> Guest,
                           v |-> << [k |-> Mac1, v |-> JDoe],
                                    [k |-> Mac2, v |-> KRoe] >>] >>) }

RetryInit ==
    /\ \E t \in {TaskAddUpper, TaskDelPartial} : board = <<t>>
    /\ board0 = board
    /\ ctl \in RunControllers
    /\ \E file \in RetryMacFiles : mac_object = MacObject(<<>>, <<>>, file)
    /\ \E status \in BOOLEAN :
          config = [update_mac_file_on_add_remove |-> TRUE,
                    send_msteams_status_messages |-> status]
    /\ open_tasks = <<>>
    /\ i = 0
    /\ pc = "start"
    /\ err = NoError
    /\ log = <<>>
    /\ notifications = <<>>
    /\ edits = 0
    /\ last = NoCall
    /\ ncalls = 1

\* the board positions of the tasks for which the run's Filter Client call
\* and backup call returned and its mark_done call did not
AppliedNotDone ==
    { n \in DOMAIN board :
         /\ \E p \in DOMAIN log :
               log[p] = [op |-> "filter", idx |-> n, err |-> "none"]
         /\ \E p \in DOMAIN log :
               log[p] = [op |-> "backup", idx |-> n, err |-> "none"]
         /\ ~ \E p \in DOMAIN log :
               log[p] = [op |-> "mark_done", idx |-> n, err |-> "none"] }

\* the program is started again after a run that ended in an error: a new
\* process with new objects; the controller, the Planner board and the MAC
\* file on disk are as the earlier run left them.  `last` keeps what that
\* run left, `ncalls` counts the runs.
NextRun ==
    /\ pc \in {"failed", "crashed"}
    /\ ncalls < MaxRuns
    /\ ncalls' = ncalls + 1
    /\ last' = [op |-> "run", applied |-> AppliedNotDone, ctl |-> ctl,
                macfile |-> mac_object.macfile]
    /\ mac_object' = MacObject(<<>>, <<>>, mac_object.macfile)
    /\ board0' = board
    /\ open_tasks' = <<>>
    /\ i' = 0
    /\ pc' = "start"
    /\ err' = NoError
    /\ log' = <<>>
    /\ notifications' = <<>>
    /\ UNCHANGED <<board, ctl, config, edits>>

RetryNext == Next \/ NextRun

RetrySpec == RetryInit /\ [][RetryNext]_vars

\* ---------------------------------------------------------------------------
\* The run with every key that _read_config reads (ConfigSpec): the
\* configuration also holds send_msteams_error_messages, which no action
\* reads
\* ---------------------------------------------------------------------------

ConfigTaskPool == { TaskAddUpper, TaskDelPartial, TaskBadMac }

ConfigInit ==
    /\ board \in SeqsUpTo(ConfigTaskPool, MaxTasks)
    /\ board0 = board
    /\ ctl \in RunControllers
    /\ \E file \in RunMacFiles : mac_object = MacObject(<<>>, <<>>, file)
    /\ config \in [update_mac_file_on_add_remove : {TRUE},
                   send_msteams_status_messages : BOOLEAN,
                   send_msteams_error_messages : BOOLEAN]
    /\ open_tasks = <<>>
    /\ i = 0
    /\ pc = "start"
    /\ err = NoError
    /\ log = <<>>
    /\ notifications = <<>>
    /\ edits = 0
    /\ last = NoCall
    /\ ncalls = 0

ConfigSpec == ConfigInit /\ [][Next]_vars

\* ---------------------------------------------------------------------------
\* The run over tasks of two networks (IsolationSpec): the controller and
\* the MAC file hold entries of both networks from the start
\* ---------------------------------------------------------------------------

IsolationTaskPool == { TaskAddUpper, TaskDelPartial, TaskAddStaff }

IsolationControllers ==
    { (Guest :> <<Mac2>>) @@ (Staff :> <<Mac1>>),
      (Guest :> <<Mac1Up>>) @@ (Staff :> <<Mac2>>) }

IsolationMacFiles ==
    { write_macfile(<< [k |-> Guest, v |-> << [k |-> Mac2, v |-> KRoe] >>],
                       [k |-> Staff, v |-> << [k |-> Mac1, v |-> JDoe] >>] >>),
      write_macfile(<< [k |-> Staff, v |-> << [k |-> Mac2, v |-> KRoe] >>],
                       [k |-> Guest, v |-> << [k |-> Mac1, v |-> JDoe],
                                              [k |-> Mac2, v |-> KRoe] >>] >>),
      write_macfile(<< [k |-> Staff, v |-> << [k |-> Mac1, v |-> AptNo] >>],
                       [k |-> Guest, v |-> << [k |-> Mac2, v |-> KRoe] >>] >>) }

IsolationInit ==
    /\ board \in SeqsUpTo(IsolationTaskPool, MaxTasks)
    /\ board0 = board
    /\ ctl \in IsolationControllers
    /\ \E file \in IsolationMacFiles : mac_object = MacObject(<<>>, <<>>, file)
    /\ config \in [update_mac_file_on_add_remove : BOOLEAN,
                   send_msteams_status_messages : {FALSE}]
    /\ open_tasks = <<>>
    /\ i = 0
    /\ pc = "start"
    /\ err = NoError
    /\ log = <<>>
    /\ notifications = <<>>
    /\ edits = 0
    /\ last = NoCall
    /\ ncalls = 0

IsolationSpec == IsolationInit /\ [][Next]_vars

(***************************************************************************)
(* ConcSpec: runs that go on at the same time against one controller.      *)
(* Each run has listed one add task of its own (get_my_tasks, line 310 of  *)
(* efg_o365.py, returns the tasks of the user the run is signed in as).    *)
(* Here pc and last are per run: pc[r] is where run r is, last[r] the      *)
(* mac_address_list that run r's add_mac_to_mac_filter has read; task r of *)
(* the board and of open_tasks is the task of run r; log holds the write   *)
(* calls.                                                                  *)
(***************************************************************************)
Runs == 1..MaxConc

\* "addmac - K. Roe - Guest", "7#aa:bb:cc:dd:ee:02"
TaskAddGuest2 ==
    RawTask("planX", 0, Title(ADDMAC, KRoe, Guest), Description(Mac2))

ConcTaskPool == { TaskAddUpper, TaskAddGuest2, TaskAddBare }

ConcInit ==
    /\ board \in [Runs -> ConcTaskPool]
    /\ board0 = board
    /\ ctl \in RunControllers
    /\ mac_object = MacObject(<<>>, <<>>, file_header)
    /\ config = [update_mac_file_on_add_remove |-> FALSE,
                 send_msteams_status_messages |-> FALSE]
    /\ open_tasks = OpenTasksFrom(board, 1, <<>>, PlannerOk).open_tasks
    /\ i = 0
    /\ pc = [r \in Runs |-> "read"]
    /\ err = NoError
    /\ log = <<>>
    /\ notifications = <<>>
    /\ edits = 0
    /\ last = [r \in Runs |-> <<>>]
    /\ ncalls = 0

concVars == <<board0, mac_object, config, open_tasks, i, err, notifications,
              edits, ncalls>>

\* one entry of the log, which here holds the runs' write calls
ConcEvent(op, r, e) == [op |-> op, idx |-> r, err |-> e]

\* add_mac_to_mac_filter, lines 119-120: the run reads the WLAN's list and
\* tests whether its MAC is in it
ConcRead ==
    \E r \in Runs, ok \in BOOLEAN :
       LET t == open_tasks[r]
       IN  /\ pc[r] = "read"
           /\ IF ~ok
              THEN /\ pc' = [pc EXCEPT ![r] = "failed"]
                   /\ last' = last
              ELSE IF ~get_wifi_id_by_name(ctl, t.efg_wifi_name)
              THEN /\ pc' = [pc EXCEPT ![r] = "failed"]
                   /\ last' = last
              ELSE LET mac_address_list ==
                          get_current_mac_filter_list(ctl, t.efg_wifi_name)
                   IN  /\ last' = [last EXCEPT ![r] = mac_address_list]
                       /\ pc' = [pc EXCEPT ![r] =
                                    IF InList(Lower(t.efg_mac_address),
                                              mac_address_list)
                                    THEN "mark_done" ELSE "write"]
           /\ UNCHANGED <<board, ctl, log>>
           /\ UNCHANGED concVars

\* a write that appends the MAC to the list the controller holds now
ConcWrite_merge ==
    \E r \in Runs, net \in NetOutcomes :
       LET t == open_tasks[r]
           now == get_current_mac_filter_list(ctl, t.efg_wifi_name)
           res == set_wifi_mac_filter_list(ctl, t.efg_wifi_name,
                      IF InList(Lower(t.efg_mac_address), now) THEN now
                      ELSE Append(now, Lower(t.efg_mac_address)),
                      net, "Added")
       IN  /\ pc[r] = "write"
           /\ ctl' = res.ctl
           /\ log' = Append(log, ConcEvent("write", r, res.err))
           /\ pc' = [pc EXCEPT ![r] =
                        IF res.err = "none" THEN "mark_done" ELSE "failed"]
           /\ UNCHANGED <<board, last>>
           /\ UNCHANGED concVars

\* add_mac_to_mac_filter, lines 121-123: the run appends its MAC to the list
\* it has read and sets the WLAN's list to the result
ConcWrite ==
    \E r \in Runs, net \in NetOutcomes :
       LET t == open_tasks[r]
           res == set_wifi_mac_filter_list(ctl, t.efg_wifi_name,
                      Append(last[r], Lower(t.efg_mac_address)), net, "Added")
       IN  /\ pc[r] = "write"
           /\ ctl' = res.ctl
           /\ log' = Append(log, ConcEvent("write", r, res.err))
           /\ pc' = [pc EXCEPT ![r] =
                        IF res.err = "none" THEN "mark_done" ELSE "failed"]
           /\ UNCHANGED <<board, last>>
           /\ UNCHANGED concVars

\* efg_automation.py line 87: the run marks its task done
ConcMarkDone ==
    \E r \in Runs, up \in BOOLEAN :
       LET e == PatchResult(board, open_tasks[r], up)
       IN  /\ pc[r] = "mark_done"
           /\ IF e = "none"
              THEN /\ board' = [board EXCEPT ![r].percentComplete = 100,
                                             ![r].etag = @ + 1]
                   /\ pc' = [pc EXCEPT ![r] = "done"]
              ELSE /\ board' = board
                   /\ pc' = [pc EXCEPT ![r] = "failed"]
           /\ UNCHANGED <<ctl, last, log>>
           /\ UNCHANGED concVars

ConcNext == ConcRead \/ ConcWrite \/ ConcMarkDone

ConcSpec == ConcInit /\ [][ConcNext]_vars

(***************************************************************************)
(* Properties of the Filter Client (checked under FilterSpec)              *)
(***************************************************************************)
\* the list a WLAN held before the latest call, lower-cased entry by entry
LowerBefore == [n \in DOMAIN last.before[last.wifi_name] |->
                   Lower(last.before[last.wifi_name][n])]

NoDuplicates(list) ==
    \A m, n \in DOMAIN list : list[m] = list[n] => m = n

\* C6 (idempotent add): when add(network, mac) is called again right after
\* the same call returned, and the controller can be read, the second call
\* takes the AlreadyPresent branch, issues no write call, raises nothing,
\* and the filter list holds the lower-cased mac exactly once.
C6_IdempotentAdd ==
    (last.op = "add" /\ last.again /\ last.net.read) =>
        /\ last.branch = "AlreadyPresent"
        /\ last.writes = 0
        /\ last.err = "none"
        /\ ctl = last.before
        /\ Count(Lower(last.mac_address),
                 get_current_mac_filter_list(ctl, last.wifi_name)) = 1

C6_Witness ==
    /\ last.op = "add" /\ last.again /\ last.net.read
    /\ last.mac_address = Mac1Up
    /\ last.before[last.wifi_name] = <<Mac1>>

\* C7 (idempotent remove): remove(network, mac) for a MAC that is absent
\* from the network's filter list takes the NotPresent branch, issues no
\* write call, raises nothing and leaves the controller's lists as they were.
C7_IdempotentRemove ==
    ( /\ last.op = "remove"
      /\ last.net.read
      /\ last.wifi_name \in DOMAIN last.before
      /\ ~InList(Lower(last.mac_address), LowerBefore) ) =>
        /\ last.branch = "NotPresent"
        /\ last.writes = 0
        /\ last.err = "none"
        /\ ctl = last.before

C7_Witness ==
    /\ last.op = "remove" /\ last.net = NetOk
    /\ last.wifi_name = Guest
    /\ last.mac_address = Mac2
    /\ last.before[Guest] = <<Mac1Up>>
    /\ last.branch = "NotPresent"

\* C8 (canonicalization): after add(network, m) returned for a valid MAC
\* literal m in any letter case, get_filter(network) holds the lower-case
\* form of m and, where the two differ, not the upper-case form; and the
\* branch every add and remove takes is decided by whether the lower-cased
\* MAC is among the lower-cased entries of the list.
C8_Canonicalization ==
    /\ ( /\ last.op = "add"
         /\ last.err = "none"
         /\ MacRegexMatch(Lower(last.mac_address)) ) =>
           LET f == get_current_mac_filter_list(ctl, last.wifi_name)
           IN  /\ InList(Lower(last.mac_address), f)
               /\ Upper(last.mac_address) # Lower(last.mac_address)
                     => ~InList(Upper(last.mac_address), f)
    /\ last.branch # "none" =>
           (last.branch \in {"AlreadyPresent", "Removed"}
               <=> InList(Lower(last.mac_address), LowerBefore))

C8_Witness ==
    /\ last.op = "add" /\ last.err = "none"
    /\ last.mac_address = Mac1Up
    /\ last.branch = "Added"
    /\ ctl[last.wifi_name] = <<Mac2, Mac1>>

\* C9 (uniqueness): the controller's lists start without an address held
\* twice; after any sequence of add and remove calls, with MACs in any
\* letter case, get_filter of every network holds no MAC twice, and after a
\* remove that returned on the Removed branch the MAC is absent from
\* get_filter.
C9_Uniqueness ==
    /\ \A w \in DOMAIN ctl :
          NoDuplicates(get_current_mac_filter_list(ctl, w))
    /\ (last.op = "remove" /\ last.branch = "Removed" /\ last.err = "none") =>
          ~InList(Lower(last.mac_address),
                  get_current_mac_filter_list(ctl, last.wifi_name))

C9_Witness ==
    /\ last.op = "remove" /\ last.branch = "Removed" /\ last.err = "none"
    /\ last.mac_address = Mac1Up
    /\ last.before[last.wifi_name] = <<Mac2, Mac1>>
    /\ ctl[last.wifi_name] = <<Mac2>>


(***************************************************************************)
(* Properties of the task listing (checked under TaskSpec)                 *)
(***************************************************************************)
\* the command a task carries: the first ' - ' separated field of its
\* title, stripped and lower-cased, as the decoder reads it
CommandOf(title) == Lower(Strip(Split(title, TitleSep)[1]))

\* a task is eligible when it is in the configured queue, its completion is
\* not 100 and its command is one of the two known values
EligibleTask(t) ==
    /\ t.planId = planner_wifi_automation_plan_id
    /\ t.percentComplete # 100
    /\ CommandOf(t.title) \in {ADDMAC, DELMAC}

\* the board positions of the tasks a listing returned, in order
ReturnedIdx == [k \in DOMAIN open_tasks |-> open_tasks[k].idx]

\* C10 (task filtering): when list_open_tasks returns, the tasks it returns
\* are exactly the tasks of the board that are in the configured queue, have
\* a completion other than 100 and carry a known command, in board order;
\* and it raises, other than for the transport, only over an eligible task.
C10_TaskFiltering ==
    /\ pc = "loop" =>
          /\ { ReturnedIdx[k] : k \in DOMAIN open_tasks }
                = { n \in DOMAIN board : EligibleTask(board[n]) }
          /\ \A k, l \in DOMAIN open_tasks :
                k < l => ReturnedIdx[k] < ReturnedIdx[l]
    /\ (pc = "except" /\ err.step = "list"
           /\ err.kind # "UpstreamUnavailable") =>
          \E n \in DOMAIN board : EligibleTask(board[n])

(***************************************************************************)
(* Properties of the reconciliation run (checked under Spec)               *)
(***************************************************************************)
\* log positions before p that hold a call `op` for task idx that returned
OkBefore(op, idx, p) ==
    { q \in 1..(p - 1) :
         log[q].op = op /\ log[q].idx = idx /\ log[q].err = "none" }

\* number of calls `op` the run has made for task idx
Calls(op, idx) ==
    Cardinality({ p \in DOMAIN log : log[p].op = op /\ log[p].idx = idx })

\* the filter list of the task's WLAN is as the task's command asks
FilterEffect(t) ==
    /\ t.efg_wifi_name \in DOMAIN ctl
    /\ InList(Lower(t.efg_mac_address),
              get_current_mac_filter_list(ctl, t.efg_wifi_name))
          <=> t.efg_mac_command = ADDMAC

\* the MAC file and its dict are as the task's command asks
BackupEffect(t) ==
    LET ext == mac_object.mac_address_list_extended
        has == /\ t.efg_wifi_name \in DictKeys(ext)
               /\ Lower(t.efg_mac_address)
                     \in DictKeys(DictGet(ext, t.efg_wifi_name))
        line == Lower(t.efg_mac_address) \o SemiSep \o t.efg_wifi_name
    IN  /\ mac_object.macfile = write_macfile(ext)
        /\ IF t.efg_mac_command = ADDMAC
           THEN /\ has
                /\ InList(DataLine(t.efg_mac_address, t.efg_wifi_name,
                                   t.efg_mac_comment), mac_object.macfile)
           ELSE /\ ~has
                /\ \A n \in DOMAIN mac_object.macfile :
                      ~StartsWith(mac_object.macfile[n], line \o <<" ">>)

\* two tasks are about the same MAC of the same WLAN
Touches(t, u) ==
    /\ t.efg_wifi_name = u.efg_wifi_name
    /\ Lower(t.efg_mac_address) = Lower(u.efg_mac_address)

\* C1 (ordering within a task): every mark_done call of the run comes after
\* a Filter Client call for the same task that returned and, when the backup
\* is enabled, after a Backup Store call for it that returned after the
\* Filter Client call; a Backup Store call is only made with the backup
\* enabled and after the Filter Client call returned; so every task whose
\* completion this run set to 100 had both applied before.
C1_StepOrder ==
    /\ \A p \in DOMAIN log :
          /\ log[p].op = "mark_done" =>
                \E q \in OkBefore("filter", log[p].idx, p) :
                   config.update_mac_file_on_add_remove =>
                      \E r \in OkBefore("backup", log[p].idx, p) : q < r
          /\ log[p].op = "backup" =>
                /\ config.update_mac_file_on_add_remove
                /\ OkBefore("filter", log[p].idx, p) # {}
    /\ \A k \in DOMAIN open_tasks :
          ( \/ open_tasks[k].percentComplete = 100
            \/ board[open_tasks[k].idx].percentComplete = 100 ) =>
             \E p \in DOMAIN log :
                log[p].op = "mark_done" /\ log[p].idx = open_tasks[k].idx

C1_Witness ==
    /\ pc = "ended"
    /\ i = 2
    /\ config.update_mac_file_on_add_remove
    /\ Len(log) = 6
    /\ board[1].percentComplete = 100 /\ board[2].percentComplete = 100

\* C2 (exactly-once application in a clean run): when the run has finished
\* its loop without any step failing, the Filter Client and mark_done have
\* each been called exactly once for every task that was eligible at the
\* start of the run, and not at all for any other task.
C2_ExactlyOnce ==
    (pc \in {"status", "ended"} /\ err = NoError) =>
        \A n \in DOMAIN board0 :
           IF EligibleTask(board0[n])
           THEN Calls("filter", n) = 1 /\ Calls("mark_done", n) = 1
           ELSE Calls("filter", n) = 0 /\ Calls("mark_done", n) = 0

\* C3 (failure stops the run): when mark_done is refused with
\* ConcurrentModification, that is the last call the run makes; the run ends
\* with one message, an error message; the task is not counted and its
\* remote completion is as it was; and what the Filter Client and the
\* Backup Store did for the task is still in place.
C3_FailureStopsRun ==
    \A p \in DOMAIN log :
       (log[p].op = "mark_done" /\ log[p].err = "ConcurrentModification") =>
          /\ p = Len(log)
          /\ pc \in {"except", "failed", "crashed"}
          /\ err = [kind |-> "ConcurrentModification", step |-> "mark_done"]
          /\ i < Len(open_tasks)
          /\ task.idx = log[p].idx
          /\ i = Cardinality({ q \in DOMAIN log :
                     log[q].op = "mark_done" /\ log[q].err = "none" })
          /\ board[task.idx].percentComplete = board0[task.idx].percentComplete
          /\ board[task.idx].percentComplete # 100
          /\ FilterEffect(task)
          /\ config.update_mac_file_on_add_remove => BackupEffect(task)
          /\ pc # "except" =>
                /\ Len(notifications) = 1
                /\ notifications[1].msg.type = "error"
                /\ notifications[1].msg.text = "ConcurrentModification"

C3_Witness ==
    /\ pc = "failed"
    /\ err = [kind |-> "ConcurrentModification", step |-> "mark_done"]
    /\ config.update_mac_file_on_add_remove
    /\ i = 1
    /\ task.efg_mac_command = ADDMAC
    /\ board[task.idx].percentComplete = 0

\* while a step of a task has failed: no call was made for the tasks after
\* it, their remote state is as it was, and no call for the failed task was
\* made twice
C4_State ==
    err.kind # "none" =>
        /\ \A p \in DOMAIN log :
              \E k \in 1..(i + 1) :
                 k \in DOMAIN open_tasks /\ open_tasks[k].idx = log[p].idx
        /\ \A k \in (i + 2)..Len(open_tasks) :
              /\ board[open_tasks[k].idx] = board0[open_tasks[k].idx]
              /\ open_tasks[k].percentComplete # 100
        /\ \A n \in DOMAIN board :
              /\ Calls("filter", n) <= 1
              /\ Calls("backup", n) <= 1
              /\ Calls("mark_done", n) <= 1

\* once a step has failed, the run changes nothing any more
C4_Step ==
    err.kind # "none" =>
        UNCHANGED <<ctl, mac_object, board, open_tasks, i, log, err>>

\* C4 (any step failure aborts the loop): once any step of a task has
\* failed, the run makes no further call: the filter lists, the backup, the
\* tasks and the counter stay as they are; the tasks after the failed one
\* have had no call and are remotely unchanged; the failed task is not
\* retried.
C4_FailureAbortsLoop == [](C4_State) /\ [][C4_Step]_vars

C4_Witness ==
    /\ pc = "failed"
    /\ err = [kind |-> "InvalidMacFormat", step |-> "filter"]
    /\ i = 0
    /\ Len(open_tasks) = 2
    /\ Len(log) = 1

\* C5 (no rollback): when the run has failed, every task it processed
\* before the failure has remote completion 100, and what the Filter Client
\* and the Backup Store did for it is still in place unless a later task of
\* the run is about the same MAC of the same WLAN.
C5_NoRollback ==
    pc \in {"except", "failed", "crashed"} =>
        \A k \in 1..i :
           /\ board[open_tasks[k].idx].percentComplete = 100
           /\ open_tasks[k].percentComplete = 100
           /\ (\A j \in (k + 1)..Len(open_tasks) :
                  j <= i + 1 => ~Touches(open_tasks[k], open_tasks[j])) =>
                 /\ FilterEffect(open_tasks[k])
                 /\ config.update_mac_file_on_add_remove
                       => BackupEffect(open_tasks[k])

C5_Witness ==
    /\ pc = "failed"
    /\ i = 1
    /\ err = [kind |-> "NetworkNotFound", step |-> "filter"]
    /\ config.update_mac_file_on_add_remove
    /\ open_tasks[1].efg_mac_command = ADDMAC
    /\ ctl[Staff] = <<Mac2>>
(***************************************************************************)
(* Properties of set_wifi_mac_filter_list (checked under SetSpec)          *)
(***************************************************************************)
\* C11 (validate before write): a set_filter call whose list holds a MAC
\* the validator rejects, at any position, fails with InvalidMacFormat
\* (once the network is resolved); a call that fails, for whatever reason,
\* has issued no write call and leaves every filter list of the controller
\* as it was; a call that returns has replaced the whole list of that
\* network, and only that, by one write call.
C11_ValidateBeforeWrite ==
    last.op = "set" =>
        /\ ( /\ last.net.read
             /\ last.wifi_name \in DOMAIN last.before
             /\ \E n \in DOMAIN last.list :
                   ~MacRegexMatch(Lower(last.list[n])) ) =>
               last.err = "InvalidMacFormat"
        /\ last.err # "none" => (last.writes = 0 /\ ctl = last.before)
        /\ last.err = "none" =>
               /\ last.writes = 1
               /\ ctl = [last.before EXCEPT ![last.wifi_name] = last.list]
               /\ \A n \in DOMAIN last.list :
                     MacRegexMatch(Lower(last.list[n]))

C11_Witness ==
    /\ last.op = "set"
    /\ last.net = NetOk
    /\ last.wifi_name = Guest
    /\ last.list = <<Mac1, Mac1Dash>>
    /\ last.err = "InvalidMacFormat"
    /\ ctl[Guest] = <<Mac2Up>>
(***************************************************************************)
(* Properties of the MAC validator (checked under ValidatorSpec)           *)
(***************************************************************************)
\* six groups of two lower-case hex digits, with a colon between every two
\* groups or with nothing between them
WellFormedMac(s) ==
    \/ /\ Len(s) = 12
       /\ \A n \in 1..12 : s[n] \in HexDigits
    \/ /\ Len(s) = 17
       /\ \A n \in 1..17 :
             IF n \in {3, 6, 9, 12, 15} THEN s[n] = ":" ELSE s[n] \in HexDigits

\* C12 (MAC validator): the validator accepts a literal if and only if the
\* lower-cased literal is six groups of two hex digits with all five
\* separators ':' or all five absent.
C12_ValidatorIff ==
    last.op = "validate" =>
        (last.err = "none" <=> WellFormedMac(Lower(last.mac_address)))

\* what the validator does accept: such a literal, possibly followed by one
\* newline
C12_ValidatorUpToNewline ==
    last.op = "validate" =>
        (last.err = "none" <=>
            \/ WellFormedMac(Lower(last.mac_address))
            \/ \E s \in {Lower(last.mac_address)} :
                  /\ s # <<>>
                  /\ s[Len(s)] = "\n"
                  /\ WellFormedMac(SubSeq(s, 1, Len(s) - 1)))
(***************************************************************************)
(* Properties of the stored MAC form (checked under Spec)                  *)
(***************************************************************************)
\* the address a literal denotes: its hex digits, lower-cased
AddressOf(s) == LET digit(c) == c # ":" IN SelectSeq(Lower(s), digit)

\* lower-case colon-separated form
CanonicalMac(s) ==
    /\ Len(s) = 17
    /\ \A n \in 1..17 :
          IF n \in {3, 6, 9, 12, 15} THEN s[n] = ":" ELSE s[n] \in HexDigits

\* C13 (canonical storage form): the filter lists and the backup start
\* with canonical entries only; at every point of a run every entry of
\* every filter list, as get_filter reads it, and every MAC of the backup
\* is in lower-case colon-separated form, and no two entries of one
\* network's filter list denote the same address.
C13_CanonicalStorage ==
    /\ \A w \in DOMAIN ctl :
          LET f == get_current_mac_filter_list(ctl, w)
          IN  /\ \A n \in DOMAIN f : CanonicalMac(f[n])
              /\ \A m, n \in DOMAIN f :
                    AddressOf(f[m]) = AddressOf(f[n]) => m = n
    /\ \A e \in DOMAIN mac_object.mac_address_list_extended :
          \A k \in DictKeys(mac_object.mac_address_list_extended[e].v) :
             CanonicalMac(k)

(***************************************************************************)
(* Properties of the backup store (checked under BackupSpec)               *)
(***************************************************************************)
\* the (network, mac, comment) triples of a (network -> {mac: comment})
\* structure
Triples(extended) ==
    UNION { { <<extended[e].k, extended[e].v[j].k, extended[e].v[j].v>> :
                 j \in DOMAIN extended[e].v } : e \in DOMAIN extended }

\* the number of entries of the structure
Entries(extended) ==
    Cardinality(UNION { { <<e, j>> : j \in DOMAIN extended[e].v } :
                           e \in DOMAIN extended })

\* the entry of (network, mac) in the structure, if any
EntryOf(extended, wifi_name, mac_address) ==
    { t \in Triples(extended) : t[1] = wifi_name /\ t[2] = Lower(mac_address) }

\* the lines of the file that are no comment lines
DataLines(file) == LET data(l) == ~StartsWith(l, HashSep) IN SelectSeq(file, data)

\* the data lines of the file are, one for one, the entries of the structure
FileEnumerates(m) ==
    LET data == DataLines(m.macfile)
    IN  /\ Len(data) = Entries(m.mac_address_list_extended)
        /\ { data[n] : n \in DOMAIN data }
              = { DataLine(t[2], t[1], t[3]) :
                     t \in Triples(m.mac_address_list_extended) }

\* C14 (backup remove): remove(mac, network) raises nothing, whether or not
\* the entry or the network is known; afterwards the (network, mac) entry
\* is absent, every other entry is as before, and the file has been
\* rewritten from the structure.
C14_BackupRemove ==
    last.op = "store_remove" =>
        /\ last.err = "none"
        /\ Triples(mac_object.mac_address_list_extended)
              = Triples(last.before.mac_address_list_extended)
                   \ EntryOf(last.before.mac_address_list_extended,
                             last.wifi_name, last.mac_address)
        /\ FileEnumerates(mac_object)

\* C15 (backup round-trip): loading the file that the add (and remove)
\* calls have left raises nothing and gives the same
\* (network, mac) -> comment mapping as the object that wrote it held.
C15_RoundTrip ==
    last.op = "store_load" =>
        /\ last.err = "none"
        /\ Triples(mac_object.mac_address_list_extended)
              = Triples(last.before.mac_address_list_extended)

\* the round trip for stores whose comments hold no hash character
C15_RoundTripNoHash ==
    ( /\ last.op = "store_load"
      /\ \A t \in Triples(last.before.mac_address_list_extended) :
            ~InList("#", t[3]) ) =>
        /\ last.err = "none"
        /\ Triples(mac_object.mac_address_list_extended)
              = Triples(last.before.mac_address_list_extended)

\* C16 (file mirrors the structure): after every add or remove call that
\* returns, the file is the header followed by exactly one data line per
\* entry of the in-memory structure: the call itself has rewritten it.
C16_FileEnumerates ==
    (last.op \in {"store_add", "store_remove"} /\ last.err = "none") =>
        /\ FileEnumerates(mac_object)
        /\ Len(mac_object.macfile)
              = Len(file_header) + Entries(mac_object.mac_address_list_extended)

C16_Witness ==
    /\ last.op = "store_remove"
    /\ last.err = "none"
    /\ last.mac_address = Mac2
    /\ Entries(last.before.mac_address_list_extended) = 2
    /\ Entries(mac_object.mac_address_list_extended) = 1
    /\ Len(DataLines(mac_object.macfile)) = 1
(***************************************************************************)
(* Properties of mark_done, decoding and the notifications                 *)
(* (checked under Spec)                                                    *)
(***************************************************************************)
\* the position in open_tasks of the task of board position n
TaskAt(n) == CHOOSE k \in DOMAIN open_tasks : open_tasks[k].idx = n

\* C17 (mark_done): every mark_done call sets the task's completion to 100
\* locally and is made once; when it returns, the remote completion is 100
\* and the task had not changed upstream since it was read (its token was
\* still the one read with it); when the task had changed, the call fails
\* with ConcurrentModification, the remote completion stays as it was, the
\* task is not counted and the exception ends the run.
C17_MarkDone ==
    \A p \in DOMAIN log :
       log[p].op = "mark_done" =>
          LET n == log[p].idx
              k == TaskAt(n)
          IN  /\ open_tasks[k].percentComplete = 100
              /\ Calls("mark_done", n) = 1
              /\ log[p].err = "none" =>
                    /\ board[n].percentComplete = 100
                    /\ board[n].etag = open_tasks[k].etag + 1
                    /\ k <= i
              /\ log[p].err # "none" =>
                    /\ board[n].percentComplete = board0[n].percentComplete
                    /\ k = i + 1
                    /\ p = Len(log)
                    /\ err = [kind |-> log[p].err, step |-> "mark_done"]
                    /\ pc \in {"except", "failed", "crashed"}
              /\ log[p].err = "ConcurrentModification" =>
                    /\ board[n].etag # open_tasks[k].etag
                    /\ edits > 0

C17_Witness ==
    /\ pc = "crashed"
    /\ err = [kind |-> "ConcurrentModification", step |-> "mark_done"]
    /\ ~config.update_mac_file_on_add_remove
    /\ i = 0
    /\ edits = 1
    /\ open_tasks[1].percentComplete = 100
    /\ board[open_tasks[1].idx].percentComplete = 50

\* an open task of the automation queue with a command prefix whose title
\* has fewer than three fields or whose description has no '#'
MalformedOpenTask(t) ==
    /\ t.planId = planner_wifi_automation_plan_id
    /\ t.percentComplete # 100
    /\ TitleStartsWithCommand(t.title)
    /\ \/ \A n \in DOMAIN t.description : t.description[n] # "#"
       \/ Len(Split(t.title, TitleSep)) < 3

\* C18 (strict decoding): a run on a board that holds such a task never
\* gets past the listing: it ends in the error path, with an error message
\* once the wrapper has handled it, no Filter Client, Backup Store or
\* mark_done call is made, and the board stays as it was.
C18_StrictDecoding ==
    (\E n \in DOMAIN board0 : MalformedOpenTask(board0[n])) =>
        /\ pc \in {"start", "nonotifier", "list", "except", "failed", "crashed"}
        /\ log = <<>>
        /\ board = board0
        /\ i = 0
        /\ pc \in {"except", "failed", "crashed"} =>
              /\ err.step = "list"
              /\ err.kind \in {"MalformedTask", "UpstreamUnavailable"}
        /\ pc \in {"failed", "crashed"} =>
              /\ Len(notifications) = 1
              /\ notifications[1].msg.type = "error"

C18_Witness ==
    /\ pc = "failed"
    /\ err = [kind |-> "MalformedTask", step |-> "list"]
    /\ board0 = <<TaskAddUpper, TaskNoHash>>
    /\ board = board0

\* the number of tasks this run has marked done
MarkedDone ==
    Cardinality({ n \in DOMAIN board :
                     /\ board[n].percentComplete = 100
                     /\ board0[n].percentComplete # 100 })

\* C19 (status summary): when the run has ended without failure, then with
\* status messages enabled exactly one message has been sent, an info
\* message that is the "no open tasks" text iff no task was processed and
\* otherwise the "processed N" text, N being the counter and the number of
\* tasks this run marked done; with status messages disabled no message
\* has been sent.
C19_StatusSummary ==
    pc = "ended" =>
        IF config.send_msteams_status_messages
        THEN /\ Len(notifications) = 1
             /\ notifications[1].delivered
             /\ notifications[1].msg.type = "info"
             /\ notifications[1].msg.n = i
             /\ i = MarkedDone
             /\ notifications[1].msg.text = "No open WiFi MAC tasks found..."
                   <=> i = 0
             /\ notifications[1].msg.text = "processed N WiFi MAC tasks..."
                   <=> i # 0
        ELSE notifications = <<>>

C19_Witness ==
    /\ pc = "ended"
    /\ config.send_msteams_status_messages
    /\ Len(board0) = 2
    /\ MarkedDone = 1
    /\ notifications[1].msg.n = 1

C21_NotifierFailureLoggedOnly ==
    /\ pc # "crashed"
    /\ err.kind # "NotifierError"

\* C22 (exit status): a run that ended with a failure (the notifier could
\* not be set up, or the processing raised) ends the process with a
\* non-zero status, and a run that completed its task list with status 0.
C22_ExitStatus ==
    /\ pc \in {"nonotifier", "failed", "crashed"} => ExitStatus # 0
    /\ pc = "ended" => ExitStatus = 0

(***************************************************************************)
(* Properties of the run's use of the controller and the backup            *)
(* (checked under Spec)                                                    *)
(***************************************************************************)
\* the task names a WLAN the controller does not have under exactly that name
UnknownNetwork(t) == t.efg_wifi_name \notin DOMAIN ctl

C23_State ==
    \A k \in DOMAIN open_tasks :
       UnknownNetwork(open_tasks[k]) =>
          LET idx == open_tasks[k].idx
          IN  /\ \A p \in DOMAIN log :
                    (log[p].op = "filter" /\ log[p].idx = idx) =>
                       log[p].err \in {"NetworkNotFound", "UpstreamUnavailable"}
              /\ Calls("backup", idx) = 0
              /\ Calls("mark_done", idx) = 0
              /\ board[idx].percentComplete = board0[idx].percentComplete

C23_Step ==
    (pc = "filter" /\ UnknownNetwork(task)) =>
        /\ ctl' = ctl
        /\ mac_object' = mac_object
        /\ board' = board
        /\ i' = i
        /\ pc' = "except"
        /\ err'.step = "filter"
        /\ err'.kind \in {"NetworkNotFound", "UpstreamUnavailable"}
        /\ err'.kind = "NetworkNotFound" <=> log'[Len(log')].err = "NetworkNotFound"

MirrorOffState ==
    ~config.update_mac_file_on_add_remove =>
        \A p \in DOMAIN log : log[p].op # "backup"

MirrorOffStep ==
    ~config.update_mac_file_on_add_remove =>
        /\ mac_object'.macfile = mac_object.macfile
        /\ pc # "start" => mac_object' = mac_object

\* mirroring is on: a Filter Client call that returned is followed by the
\* backup call, and every mark_done call comes after a backup call for the
\* same task that returned
MirrorOnState ==
    config.update_mac_file_on_add_remove =>
        \A p \in DOMAIN log :
           log[p].op = "mark_done" => OkBefore("backup", log[p].idx, p) # {}

MirrorOnStep ==
    (config.update_mac_file_on_add_remove /\ pc = "filter"
        /\ log'[Len(log')].err = "none") => pc' = "backup"

\* the backup call returns, having rewritten the file from the structure,
\* and mark_done is next
BackupRewrites ==
    /\ log'[Len(log')] = [op |-> "backup", idx |-> task.idx, err |-> "none"]
    /\ mac_object'.macfile
          = write_macfile(mac_object'.mac_address_list_extended)
    /\ BackupEffect(task)'
    /\ pc' = "mark_done"

\* C25 (mirroring gate): with mirroring off no step writes the backup file
\* or changes the backup object; with mirroring on, after every Filter
\* Client call that returned (a no-op included) the backup file is
\* rewritten, before the task is marked done.
C25_MirroringGate ==
    /\ [](MirrorOffState /\ MirrorOnState)
    /\ [][MirrorOffStep /\ MirrorOnStep]_vars
    /\ [][pc = "backup" => BackupRewrites]_vars

\* the gate without the claim that the backup call succeeds: with mirroring
\* on the backup call is made after every Filter Client call that returned,
\* and it either rewrites the file or raises and ends the run
C25_MirroringCalls ==
    /\ [](MirrorOffState /\ MirrorOnState)
    /\ [][MirrorOffStep /\ MirrorOnStep]_vars
    /\ [][pc = "backup" =>
            \/ BackupRewrites
            \/ /\ log'[Len(log')].op = "backup"
               /\ log'[Len(log')].err # "none"
               /\ mac_object' = mac_object
               /\ pc' = "except"]_vars

\* C26 (one task at a time): a task is fetched and decoded only when every
\* task the run fetched before it is Done: of the tasks the Task Source has
\* fetched and decoded so far, all but the latest are complete upstream.
C26_OneTaskAtATime ==
    \A k, l \in DOMAIN open_tasks :
       k < l => board[open_tasks[k].idx].percentComplete = 100

\* the part of it about applying: no Filter Client call is made for a task
\* before mark_done has returned for every task listed before it
C26_AppliedBeforeNext ==
    \A p \in DOMAIN log :
       log[p].op = "filter" =>
          \A k \in DOMAIN open_tasks :
             open_tasks[k].idx < log[p].idx =>
                OkBefore("mark_done", open_tasks[k].idx, p) # {}

\* C27 (InvalidCommand is unreachable): every task the listing returns
\* carries one of the two known commands, so the engine's loop never raises
\* InvalidCommand.
C27_InvalidCommandUnreachable ==
    /\ \A k \in DOMAIN open_tasks :
          open_tasks[k].efg_mac_command \in {ADDMAC, DELMAC}
    /\ err.kind # "InvalidCommand"

(***************************************************************************)
(* Properties of the load of the backup file (checked under LoadSpec)      *)
(***************************************************************************)
\* the entries whose data line is in the file
EntriesOfFile(file) ==
    { t \in LoadEntries : InList(DataLine(t[2], t[1], t[3]), file) }

\* C24 (load skips blank and comment lines): loading a file made of the
\* header, blank lines, comment lines and well-formed data lines raises
\* nothing and yields exactly the entries of the data lines.
C24_LoadSkipsBlankLines ==
    last.op = "store_load" =>
        /\ last.err = "none"
        /\ Triples(mac_object.mac_address_list_extended)
              = EntriesOfFile(mac_object.macfile)

\* the same for files without blank lines
C24_LoadWithoutBlankLines ==
    (last.op = "store_load" /\ ~InList(BlankLine, mac_object.macfile)) =>
        /\ last.err = "none"
        /\ Triples(mac_object.mac_address_list_extended)
              = EntriesOfFile(mac_object.macfile)

(***************************************************************************)
(* Properties of the backup store's two views (checked under BackupSpec)   *)
(***************************************************************************)
\* the MACs list_for_network returns for a network, none when the store
\* does not know the network
ListedMacs(m, wifi_name) ==
    IF wifi_name \in DictKeys(m.mac_address_list)
    THEN LET l == get_mac_list_for_wifi_name(m, wifi_name)
         IN  { l[n] : n \in DOMAIN l }
    ELSE {}

\* the MACs the (network -> {mac: comment}) mapping holds for a network
MappedMacs(m, wifi_name) ==
    IF wifi_name \in DictKeys(m.mac_address_list_extended)
    THEN DictKeys(DictGet(m.mac_address_list_extended, wifi_name))
    ELSE {}

\* C30 (views in sync): after any sequence of load, add and remove,
\* list_for_network(network) is the key set of the mapping for that
\* network; after a remove(mac, network) that returned, list_for_network
\* does not return the MAC.
C30_ViewsInSync ==
    /\ \A w \in StoreWifiNames :
          ListedMacs(mac_object, w) = MappedMacs(mac_object, w)
    /\ (last.op = "store_remove" /\ last.err = "none") =>
          Lower(last.mac_address) \notin ListedMacs(mac_object, last.wifi_name)

(***************************************************************************)
(* Properties of a retry (checked under RetrySpec)                         *)
(***************************************************************************)
\* the errors of the transports: controller, Planner and Teams
TransportErrors == {"UpstreamUnavailable", "ConcurrentModification", "NotifierError"}

\* in a run that follows one which applied the board's task without marking
\* it done: nothing but a transport raises, and when the run ends the task
\* is done and the filter lists and the backup file are as the earlier run
\* left them
RetryIsIdempotent ==
    /\ err.kind \in {"none"} \cup TransportErrors
    /\ pc = "ended" =>
          /\ board[1].percentComplete = 100
          /\ ctl = last.ctl
          /\ mac_object.macfile = last.macfile

\* C28 (retry idempotence): a run that re-processes a task (add or remove)
\* which an earlier run applied to the controller and the backup without
\* marking it done, with mirroring on and the backup reloaded from disk,
\* completes without error, marks the task done and leaves the filter
\* lists and the backup file as the single application left them.
C28_RetryIdempotence ==
    (last.op = "run" /\ last.applied # {}) => RetryIsIdempotent

\* the same for add tasks only
C28_RetryIdempotenceAdd ==
    (last.op = "run" /\ last.applied # {}
        /\ board0[1].title = TaskAddUpper.title) => RetryIsIdempotent

(***************************************************************************)
(* Properties of concurrent runs (checked under ConcSpec)                  *)
(***************************************************************************)
\* the log position of run r's write call that returned, 0 when there is none
WritePos(r) ==
    IF \E p \in DOMAIN log : log[p] = ConcEvent("write", r, "none")
    THEN CHOOSE p \in DOMAIN log : log[p] = ConcEvent("write", r, "none")
    ELSE 0

\* the MAC of run r's task, as the Filter Client stores it
ConcMac(r) == Lower(open_tasks[r].efg_mac_address)

\* run q wrote the list of run r's WLAN after run r did, and no run wrote
\* it after run q
LastWriterAfter(q, r) ==
    /\ open_tasks[q].efg_wifi_name = open_tasks[r].efg_wifi_name
    /\ 0 < WritePos(r)
    /\ WritePos(r) < WritePos(q)
    /\ \A s \in Runs :
          open_tasks[s].efg_wifi_name = open_tasks[r].efg_wifi_name =>
             WritePos(s) <= WritePos(q)

\* the write call puts the list the run has read, with the run's MAC
\* appended, in the place of whatever the controller holds by then
C29_Step ==
    \A r \in Runs :
       (pc[r] = "write" /\ pc'[r] = "mark_done") =>
          ctl'[open_tasks[r].efg_wifi_name] = Append(last[r], ConcMac(r))

\* so the MAC a run has written is gone from the list once a run that adds
\* another MAC, and had read the list without the first, writes after it
C29_State ==
    \A q, r \in Runs :
       (LastWriterAfter(q, r) /\ ConcMac(q) # ConcMac(r)
           /\ ~InList(ConcMac(r), last[q])) =>
          ~InList(ConcMac(r),
                  get_current_mac_filter_list(ctl, open_tasks[r].efg_wifi_name))

\* C29 (lost update): add is read-modify-write without a concurrency token:
\* a run's write replaces the list by what that run read plus its MAC, so
\* when two runs add to one WLAN and the second writer had read before the
\* first wrote, the first writer's MAC is lost, although both add tasks
\* are marked done.
C29_LostUpdate == [](C29_State) /\ [][C29_Step]_vars

C29_Witness ==
    /\ pc[1] = "done"
    /\ pc[2] = "done"
    /\ board[1].percentComplete = 100
    /\ board[2].percentComplete = 100
    /\ open_tasks[1].efg_wifi_name = Guest
    /\ open_tasks[2].efg_wifi_name = Guest
    /\ ConcMac(1) = Mac1
    /\ ConcMac(2) = Mac2
    /\ 0 < WritePos(1)
    /\ WritePos(1) < WritePos(2)
    /\ ctl[Guest] = <<Mac2>>

(***************************************************************************)
(* Properties of add on a loaded store (checked under AddSpec and          *)
(* BackupSpec)                                                             *)
(***************************************************************************)
\* the part of a data line before its comment: "<mac>;<network>"
LineKey(l) == Strip(Split(l, HashSep)[1])

\* no network of the mapping holds two entries whose MACs differ only in
\* letter case
OneEntryPerMac(m) ==
    \A e \in DOMAIN m.mac_address_list_extended :
       LET macs == m.mac_address_list_extended[e].v
       IN  \A j, k \in DOMAIN macs :
              Lower(macs[j].k) = Lower(macs[k].k) => j = k

\* the file has at most one data line per (network, lower-cased mac)
OneLinePerMac(m) ==
    LET data == DataLines(m.macfile)
    IN  \A j, k \in DOMAIN data :
           Lower(LineKey(data[j])) = Lower(LineKey(data[k])) => j = k

\* C31 (add overwrites under the lower-cased MAC): after a load followed
\* by any sequence of add calls no network holds two entries whose MACs
\* differ only in letter case, the rewritten file has at most one line per
\* (network, lower-cased mac), and the entry of the (network, mac) just
\* added carries the comment just given.
C31_AddOverwrites ==
    /\ OneEntryPerMac(mac_object)
    /\ last.op = "store_add" =>
          /\ OneLinePerMac(mac_object)
          /\ { t \in Triples(mac_object.mac_address_list_extended) :
                  t[1] = last.wifi_name
                     /\ Lower(t[2]) = Lower(last.mac_address) }
                = { <<last.wifi_name, Lower(last.mac_address), last.comment>> }

\* the same for a store whose file the program itself has written, under
\* any sequence of add, remove and load
C31_AddOverwritesOwnFile == C31_AddOverwrites

\* ---------------------------------------------------------------------------
\* Properties of the run (Spec): no-op results of the Filter Client
\* ---------------------------------------------------------------------------

\* the Filter Client call of this step returned without writing the list:
\* AlreadyPresent for an add, NotPresent for a remove
NoOpReturn ==
    /\ pc = "filter"
    /\ log'[Len(log')] = [op |-> "filter", idx |-> task.idx, err |-> "none"]
    /\ ctl' = ctl

\* the result of the Backup Store call that Manage_MACFilter makes for the
\* current task on the object as it is
BackupCall ==
    IF task.efg_mac_command = ADDMAC
    THEN mac_add_mac(mac_object, task.efg_mac_address, task.efg_wifi_name,
                     task.efg_mac_comment)
    ELSE mac_remove_mac(mac_object, task.efg_mac_address, task.efg_wifi_name)

\* after a no-op return the task goes on to the backup call (mirroring on),
\* which returns, or to mark_done (mirroring off)
NoOpGoesOn ==
    /\ pc' = AfterFilter(config.update_mac_file_on_add_remove)
    /\ config.update_mac_file_on_add_remove => BackupCall.err = "none"

\* a mark_done call that returned counts the task and the loop goes on
DoneIsCounted ==
    (pc = "mark_done" /\ Len(log') > Len(log) /\ log'[Len(log')].err = "none") =>
        /\ i' = i + 1
        /\ pc' = "loop"
        /\ board'[task.idx].percentComplete = 100

\* C33 (no-op results are not errors): a task whose Filter Client call
\* returns AlreadyPresent or NotPresent is still mirrored to the backup
\* store when mirroring is enabled, without the backup call failing, then
\* marked done and counted, and the loop goes on.
C33_NoOpIsNotAnError ==
    /\ [][NoOpReturn => NoOpGoesOn]_vars
    /\ [][DoneIsCounted]_vars

\* what does hold: the same for the add tasks (AlreadyPresent), and for
\* the remove tasks when mirroring is off
C33_AlreadyPresentIsNotAnError ==
    /\ [][(NoOpReturn /\ ( \/ task.efg_mac_command = ADDMAC
                           \/ ~config.update_mac_file_on_add_remove ))
            => NoOpGoesOn]_vars
    /\ [][DoneIsCounted]_vars

\* ---------------------------------------------------------------------------
\* Properties of the rewrite of the MAC file (RewriteSpec)
\* ---------------------------------------------------------------------------

\* C32 (no partial backup file is observable): during a rewrite and after an
\* interrupted one, the file on disk is either the complete file of before
\* the rewrite or the complete new file
C32_NoPartialFile ==
    pc \in {"writing", "interrupted"} =>
        mac_object.macfile \in {last.before.macfile, NewContents}

\* what does hold: a rewrite that reaches the end of write_macfile leaves the
\* complete new file
C32_CompleteAfterClose ==
    (pc = "idle" /\ ncalls > 0) => mac_object.macfile = NewContents

\* ---------------------------------------------------------------------------
\* Properties of the Filter Client (FilterSpec): resident entries
\* ---------------------------------------------------------------------------

\* the last call added or removed one valid MAC on a network the controller
\* knows, and the transport worked
ValidSingleCall ==
    /\ last.op \in {"add", "remove"}
    /\ last.net = NetOk
    /\ last.wifi_name \in DOMAIN last.before
    /\ MacRegexMatch(Lower(last.mac_address))

\* the list of the call's network before the call held only valid MACs
ResidentsValid ==
    validate_mac_filter_list(
        get_current_mac_filter_list(last.before, last.wifi_name))

\* the call took effect: the MAC is in the list after an add and not in it
\* after a remove
SingleCallEffect ==
    /\ last.err = "none"
    /\ InList(Lower(last.mac_address),
              get_current_mac_filter_list(ctl, last.wifi_name))
          <=> last.op = "add"

\* C34 (no re-validation of resident MACs): a single add or remove of a
\* valid MAC succeeds and writes the updated list whether or not the entries
\* already in the filter list are syntactically valid.
C34_ResidentsNotValidated == ValidSingleCall => SingleCallEffect

\* what does hold: the call succeeds when every resident entry is valid
C34_ValidResidents == (ValidSingleCall /\ ResidentsValid) => SingleCallEffect

\* ---------------------------------------------------------------------------
\* Properties of the run with its whole configuration (ConfigSpec)
\* ---------------------------------------------------------------------------

\* the notifications of the given type the run has tried to send
Sent(type) == { n \in DOMAIN notifications : notifications[n].msg.type = type }

\* C35 (error notification gated by configuration): an error notification
\* is sent only when send_msteams_error_messages is set; with the key off a
\* failing run sends no remote notification.
C35_ErrorMessageGated ==
    ~config.send_msteams_error_messages => Sent("error") = {}

\* what does hold: the status message is gated by its key, and a run that
\* failed has tried to send exactly one error message, whatever the keys
C35_StatusMessageGated ==
    /\ ~config.send_msteams_status_messages => Sent("info") = {}
    /\ pc \in {"failed", "crashed"} => Cardinality(Sent("error")) = 1

\* ---------------------------------------------------------------------------
\* Termination of the run (LiveSpec)
\* ---------------------------------------------------------------------------

\* the process has ended
Terminated == pc \in {"ended", "failed", "crashed", "nonotifier"}

\* the k-th listed task is Done: its mark_done call returned and the task is
\* complete upstream
TaskDone(k) ==
    /\ board[open_tasks[k].idx].percentComplete = 100
    /\ \E p \in DOMAIN log :
          log[p] = [op |-> "mark_done", idx |-> open_tasks[k].idx, err |-> "none"]

\* the run has called a collaborator for the k-th listed task and the task
\* is not Done
TaskIntermediate(k) ==
    /\ \E p \in DOMAIN log : log[p].idx = open_tasks[k].idx
    /\ ~TaskDone(k)

\* where a run stands: the tasks before the current one are Done, the ones
\* after it are untouched; a run that ended without error has every listed
\* task Done, a run that failed holds the error of the step it failed at
RunShape ==
    /\ \A k \in DOMAIN open_tasks :
          /\ k <= i => TaskDone(k)
          /\ TaskIntermediate(k) => (k = i + 1 /\ pc # "ended")
    /\ pc = "ended" =>
          /\ err = NoError
          /\ i = Len(open_tasks)
    /\ pc \in {"except", "failed", "crashed"} => err.kind # "none"

\* after the failing step the run calls no collaborator but the notifier
StopsAtFailure ==
    pc \in {"except", "failed", "crashed", "nonotifier"} =>
        /\ UNCHANGED <<board, ctl, mac_object, open_tasks, i, log, err>>
        /\ pc' \in {"failed", "crashed"}

\* C36 (termination): every run ends; it ends with every listed task Done
\* or failed at the first failing step, and the only task that can be left
\* between Fetched and Done is the one the run failed at.
C36_Termination ==
    /\ <>Terminated
    /\ []RunShape
    /\ [][StopsAtFailure]_vars

C36_Witness ==
    /\ pc = "failed"
    /\ i = 1
    /\ Len(open_tasks) = 2
    /\ TaskDone(1)
    /\ TaskIntermediate(2)

\* ---------------------------------------------------------------------------
\* Properties of repeated listings (RelistSpec)
\* ---------------------------------------------------------------------------

\* how many times the board's n-th task is in the list the last call
\* returned
TimesReturned(n) ==
    Cardinality({ k \in DOMAIN last.returned : last.returned[k].idx = n })

\* the last call returned every eligible task of the board once and no
\* other task
ReturnedOnce ==
    \A n \in DOMAIN board :
       TimesReturned(n) = IF EligibleTask(board[n]) THEN 1 ELSE 0

C37_ListedOnceFirstCall ==
    (last.op = "list" /\ last.err = "none" /\ ncalls = 1) => ReturnedOnce

\* ---------------------------------------------------------------------------
\* Network isolation (IsolationSpec)
\* ---------------------------------------------------------------------------

\* the network a data line of the MAC file belongs to
LineNetwork(l) == Split(LineKey(l), SemiSep)[2]

\* what the backup store holds for a network: the entries of the dict, the
\* list of its MACs, and the data lines of the file
BackupOf(m, wifi_name) ==
    [entries |-> { t \in Triples(m.mac_address_list_extended) : t[1] = wifi_name },
     list    |-> IF wifi_name \in DictKeys(m.mac_address_list)
                 THEN DictGet(m.mac_address_list, wifi_name) ELSE <<>>,
     lines   |-> LET own(l) == LineNetwork(l) = wifi_name
                 IN  SelectSeq(DataLines(m.macfile), own)]

\* the step leaves the filter list of every network but the task's as it is
OtherFiltersUnchanged ==
    \A w \in {Guest, Staff, Nope} \ {task.efg_wifi_name} :
       /\ w \in DOMAIN ctl <=> w \in DOMAIN ctl'
       /\ w \in DOMAIN ctl => ctl'[w] = ctl[w]

\* the step leaves what the backup holds for every network but the task's
\* as it is: the object's entries and list, and the lines of the file
OtherBackupsUnchanged ==
    \A w \in {Guest, Staff, Nope} \ {task.efg_wifi_name} :
       BackupOf(mac_object', w) = BackupOf(mac_object, w)

\* the same without the lines of the file
OtherEntriesUnchanged ==
    \A w \in {Guest, Staff, Nope} \ {task.efg_wifi_name} :
       /\ BackupOf(mac_object', w).entries = BackupOf(mac_object, w).entries
       /\ BackupOf(mac_object', w).list = BackupOf(mac_object, w).list

\* no step of the loop but the two calls changes a filter list or the backup
OnlyTheCallsWrite ==
    pc \in {"loop", "mark_done", "status", "except"} =>
        (ctl' = ctl /\ mac_object' = mac_object)

\* C38 (network isolation): the Filter Client call and the Backup Store call
\* of a task for one network leave the filter list and the backup entries
\* of every other network unchanged, in the object and in the file, and no
\* other step of the loop changes any filter list or the backup.
C38_NetworkIsolation ==
    [][ /\ pc \in {"filter", "backup"} =>
              (OtherFiltersUnchanged /\ OtherBackupsUnchanged)
        /\ OnlyTheCallsWrite ]_vars

\* what does hold: the filter lists of the other networks and the entries
\* the object holds for them are unchanged
C38_IsolationInMemory ==
    [][ /\ pc \in {"filter", "backup"} =>
              (OtherFiltersUnchanged /\ OtherEntriesUnchanged)
        /\ OnlyTheCallsWrite ]_vars

=============================================================================
